---- MODULE Spec2Model ----
(***************************************************************************)
(* PiGuard detection stage: the sensor loop of src/wids/sensor/main.py.    *)
(*                                                                         *)
(* The store (table event, table alert), the config file on disk and the   *)
(* local variables of loop() are the state.  One iteration of the          *)
(* `while not stop` loop is split at the points where the code itself      *)
(* iterates: TickBegin (hot reload, deauth detection, beacon query),       *)
(* EvalBeacon (one pass of `for e in beacons`), Sleep (time.sleep(2)).     *)
(* The capture worker (Ingest) and the API (WriteConfig) are the           *)
(* environment of the loop.                                                *)
(*                                                                         *)
(* PiGuard capture stage: handle() and flush() of src/wids/capture/live.py *)
(* with the buffer handle._buf, the time of the last flush and the commit  *)
(* of a batch to table event (Handle, Wait, Exit); there the detector is   *)
(* the environment, reduced to its two store reads.                        *)
(***************************************************************************)
EXTENDS Integers, Sequences, FiniteSets, TLC

VARIABLES
    now,                \* wall clock, seconds (time.time() / datetime.utcnow())
    events,             \* table event, in id order: events[i].id = i
    alerts,             \* table alert, in id order
    cfgFile,            \* contents of the YAML config file on disk
    cfgChanged,         \* st.st_mtime > cfg_mtime
    cfgWrites,          \* number of rewrites of the config file so far
    w, per_src, glob, cooldown,                 \* thresholds.deauth locals
    pwr_win, pwr_var_threshold, pwr_cooldown,   \* thresholds.rogue locals
    defense,            \* cfg["defense"]
    last_fire_ts, last_sig,
    rsn_baseline,       \* dict in insertion order: sequence of entries
    pwr_windows,        \* bssid -> deque of RSSI samples
    pwr_caps,           \* bssid -> maxlen of its deque
    last_pwr_alert_ts,  \* bssid -> time of the last power-variance alert
    tracked_bssids,
    seen_beacon_ids,    \* deque(maxlen)
    seen_beacon_set,
    pc,                 \* position in the loop body: "tick" | "beacons"
    beacons,            \* ids of the rows of `beacons` not yet iterated
    clock,              \* capture worker: time.time(), milliseconds
    buf,                \* handle._buf
    last_flush,         \* handle._last_flush, milliseconds
    arrived,            \* history: the frames handed to handle(), in order
    worker,             \* capture worker: "running", or how it ended:
                        \* "stopped" | "raised" | "killed"
    logs,               \* table log: the rows written by the capture worker
    deauth_seen,        \* ids of the rows the last deauth count query read
    hopFile,            \* capture.hop of the config file on disk
    hopCfg,             \* capture.hop of the config the sniffer started with
    hopWrites,          \* number of rewrites of capture.hop so far
    last_plan,          \* _hop_loop: the order adopted at the last shuffle
    last_plan_key,      \* _hop_loop: (plan_src, frozenset(channels)) or None
    idx,                \* _hop_loop: number of hops so far
    radio,              \* the last `iw dev <iface> set ...` the hopper ran
    hop_cfg,            \* _build_plan: the hop_cfg of the last build
    shuffles,           \* history: number of random.shuffle calls so far
    stop,               \* sensor loop: the flag its signal handler sets
    signal,             \* history: the signal sent to the workers, if any
    interrupted,        \* run_sniffer: KeyboardInterrupt is propagating
    stop_evt,           \* run_sniffer: threading.Event of the hopper
    hopper,             \* the chan-hopper thread: "running" | "exited"
    sniffing,           \* run_sniffer: inside a sniff() call
    backoff,            \* run_sniffer: backoff, tenths of a second
    waited,             \* the last stop_evt.wait of the sniff loop, tenths of a second
    mark,               \* history: frames arrived when the last sniff() ended
    streak,             \* history: capture failures since the last handled
                        \* frame or sniff() that returned
    failures,           \* history: number of sniff() calls that raised
    columns,            \* the columns of table event, {} while it does not exist
    indices,            \* the indices on table event
    opened,             \* worker -> how its last store-open sequence ended
    opens,              \* history: number of store-open sequences run
    apiCalls,           \* history: number of requests the API has served
    watch,              \* run_sniffer: the state of the in-line anomaly watchers
    sse                 \* api: _last_alert_id_for_sse (watermark) and, as history,
                        \* what was put in the queue of a subscriber (sent) and
                        \* how often the alert table was cleared (clears)

cfgVars    == <<w, per_src, glob, cooldown, pwr_win, pwr_var_threshold, pwr_cooldown, defense>>
deauthVars == <<last_fire_ts, last_sig>>
rogueVars  == <<rsn_baseline, pwr_windows, pwr_caps, last_pwr_alert_ts,
                tracked_bssids, seen_beacon_ids, seen_beacon_set>>
storeVars == <<columns, indices, opened, opens, apiCalls>>
loopVars == <<stop, signal, interrupted, stop_evt, hopper, sniffing, backoff, waited,
              mark, streak, failures, storeVars>>
hopVars == <<hopFile, hopCfg, hopWrites, last_plan, last_plan_key, idx, radio, hop_cfg,
             shuffles, loopVars>>
captureVars == <<clock, buf, last_flush, arrived, worker, logs, deauth_seen, hopVars, watch,
                sse>>
vars       == <<now, events, alerts, cfgFile, cfgChanged, cfgWrites, cfgVars, deauthVars,
                rogueVars, pc, beacons, captureVars>>

----------------------------------------------------------------------------
(* Bounds of the model *)

MaxEvents == 3
MaxTicks == 3
MaxWrites == 1
MaxBeacons == 2
MaxSamples == 4
StartTime == 100
SeenMaxLen == 3
MaxFrames == 3
MaxWaits == 2
StartClock == 1000
ClockStep == 500
FlushBatch == 2
MaxHops == 4
MaxHopWrites == 2
MaxShuffled == 3
MaxPlanHops == 1
MaxFailures == 6
MaxSniffFrames == 1
MaxShutdownFailures == 1
MaxShutdownEvents == 1
MaxOpens == 4
MaxApiCalls == 2
MaxAlertEvents == 2
MaxWatchFrames == 3
QuietMs == 2500
MaxQuiet == 2
MaxReplayed == 1
MaxSuites == 3

(* Program constants *)

TickSec == 2
MinPwrWindow == 3
FlushIntervalMs == 800
BackoffStart == 5
BackoffCap == 50
IfaceWait == 10
MsPerSec == 1000

\* Python None / SQL NULL: "None" in a text column; Null in an integer column,
\* in a comma-list column and in last_sig, whose values are wrapped as <<v>>
None == "None"
Null == <<>>

\* a config without a capture.hop section: hopping is off
\* the workers that open the store
Workers == {"capture", "detector", "api"}

\* class Event: the columns of table event, the two of the migration apart
BaseColumns == {"id", "ts", "type", "band", "chan", "src", "dst", "bssid", "ssid", "rssi"}
RsnColumns == {"rsn_akms", "rsn_ciphers"}
BothIndices == {"idx_events_ts", "idx_events_type_ts"}

Store(cols, idxs, status) == [columns |-> cols, indices |-> idxs, opened |-> status]
CurrentStore == Store(BaseColumns \cup RsnColumns, BothIndices, "open")

NoHop ==
    [enabled |-> FALSE, mode |-> "all", bands |-> {}, channels_24 |-> <<>>,
     channels_5 |-> <<>>, channels_6 |-> <<>>, lock_channel |-> <<>>,
     list_channels |-> <<>>]

----------------------------------------------------------------------------
(* Helpers *)

\* str.lower() / SQL LOWER() on the MAC strings the model uses
Lower(s) ==
    CASE s = "AA:01" -> "aa:01"
      [] s = "BB:02" -> "bb:02"
      [] OTHER -> s

Max(a, b) == IF a >= b THEN a ELSE b

RECURSIVE SumOver(_, _)
SumOver(f, S) ==
    IF S = {} THEN 0
    ELSE LET x == CHOOSE y \in S : TRUE IN f[x] + SumOver(f, S \ {x})

RECURSIVE SumSeq(_)
SumSeq(s) == IF s = <<>> THEN 0 ELSE Head(s) + SumSeq(Tail(s))

SeqToSet(s) == {s[i] : i \in DOMAIN s}

\* deque(iterable, maxlen=n): the last n items
LastN(s, n) == IF Len(s) <= n THEN s ELSE SubSeq(s, Len(s) - n + 1, Len(s))

----------------------------------------------------------------------------
(* detect_deauths *)

\* COALESCE(LOWER(CAST(src AS TEXT)), 'unknown')
SrcKey(src) == IF src = None THEN "unknown" ELSE Lower(src)

\* mutant: disassoc frames are counted too
DeauthRowsWithDisassoc(ev, since) ==
    {i \in DOMAIN ev : ev[i].ts >= since
                       /\ ev[i].type \in {"mgmt.deauth", "mgmt.disassoc"}}

\* WHERE ts >= :since AND type = 'mgmt.deauth'
DeauthRows(ev, since) ==
    {i \in DOMAIN ev : ev[i].ts >= since /\ ev[i].type = "mgmt.deauth"}

\* GROUP BY s ... COUNT(1)
DeauthCounts(ev, since) ==
    LET rows == DeauthRows(ev, since)
    IN  [s \in {SrcKey(ev[i].src) : i \in rows} |->
            Cardinality({i \in rows : SrcKey(ev[i].src) = s})]

\* mutant: a source offends only above the limit
OffendersAbove(counts, per_src_limit) ==
    {s \in DOMAIN counts : counts[s] > per_src_limit}

Offenders(counts, per_src_limit) ==
    {s \in DOMAIN counts : counts[s] >= per_src_limit}

Triggered(total, global_limit) == total >= global_limit

detect_deauths(ev, t, window_sec, per_src_limit, global_limit) ==
    LET counts == DeauthCounts(ev, t - window_sec)
        total  == SumOver(counts, DOMAIN counts)
    IN  [triggered |-> Triggered(total, global_limit),
         total     |-> total,
         offenders |-> Offenders(counts, per_src_limit),
         counts    |-> counts]

\* sig = ("deauth_flood", total, tuple(sorted(offenders))): the sorted tuple of
\* the distinct keys is the canonical form of the offender set
Sig(total, offenders) == <<"deauth_flood", total, offenders>>

\* mutant: no cooldown
ShouldFireIgnoringCooldown(trig, too_soon, same_as_before) == trig

\* mutant: the cooldown suppresses whatever the signature
ShouldFireIgnoringSignature(trig, too_soon, same_as_before) == trig /\ ~too_soon

ShouldFire(trig, too_soon, same_as_before) ==
    trig /\ ~(too_soon /\ same_as_before)

\* mutant: critical only above twice the limit
SeverityAboveDouble(total, global_limit) ==
    IF total > global_limit * 2 THEN "critical" ELSE "warn"

Severity(total, global_limit) ==
    IF total >= global_limit * 2 THEN "critical" ELSE "warn"

DeauthAlert(t, total, offenders, global_limit) ==
    [ts |-> t, severity |-> Severity(total, global_limit), kind |-> "deauth_flood",
     total |-> total, offenders |-> Cardinality(offenders),
     reason |-> "", bssid |-> "", eid |-> 0, acknowledged |-> FALSE]

----------------------------------------------------------------------------
(* Rogue AP check: the body of `for e in beacons` *)

def_ssid == defense.ssid
armed == def_ssid # ""

\* (e.bssid or "").lower()
BssidOf(e) == IF e.bssid = None THEN "" ELSE Lower(e.bssid)

\* set(b.lower() for b in defense.get("allowed_bssids", []))
AllowedBssids(d) == {Lower(b) : b \in d.allowed_bssids}

\* set((e.rsn_akms or "").split(",")) if e.rsn_akms else set()
\* (the column holds the comma-joined selectors, modelled as their sequence)
SplitSelectors(col) == IF col = Null \/ col[1] = <<>> THEN {} ELSE SeqToSet(col[1])

\* if bssid and bssid in allowed_bssids and (akms or ciphers):
\*     if bssid not in rsn_baseline: rsn_baseline[bssid] = {...}
InBaseline(baseline, bssid) == \E k \in DOMAIN baseline : baseline[k].bssid = bssid

\* mutant: every beacon with an RSN replaces the baseline of its BSSID
LearnBaselineLatest(baseline, bssid, allowed_bssids, akms, ciphers) ==
    IF bssid # "" /\ bssid \in allowed_bssids /\ (akms # {} \/ ciphers # {})
    THEN LET Other(x) == x.bssid # bssid
         IN  Append(SelectSeq(baseline, Other),
                    [bssid |-> bssid, akms |-> akms, ciphers |-> ciphers])
    ELSE baseline

LearnBaseline(baseline, bssid, allowed_bssids, akms, ciphers) ==
    IF bssid # "" /\ bssid \in allowed_bssids /\ (akms # {} \/ ciphers # {})
       /\ ~InBaseline(baseline, bssid)
    THEN Append(baseline, [bssid |-> bssid, akms |-> akms, ciphers |-> ciphers])
    ELSE baseline

\* mutant: channels and bands are checked before the BSSID allowlist
PolicyReasonChannelsFirst(bssid, chan, band, allowed_bssids, allowed_channels, allowed_bands) ==
    IF allowed_channels # {} /\ chan \notin allowed_channels
    THEN "unapproved channel"
    ELSE IF allowed_bands # {} /\ band \notin allowed_bands
    THEN "unapproved band"
    ELSE IF allowed_bssids # {} /\ (bssid = "" \/ bssid \notin allowed_bssids)
    THEN "unknown BSSID"
    ELSE ""

\* the if / elif / elif chain on allowed_bssids, allowed_channels, allowed_bands
PolicyReason(bssid, chan, band, allowed_bssids, allowed_channels, allowed_bands) ==
    IF allowed_bssids # {} /\ (bssid = "" \/ bssid \notin allowed_bssids)
    THEN "unknown BSSID"
    ELSE IF allowed_channels # {} /\ chan \notin allowed_channels
    THEN "unapproved channel"
    ELSE IF allowed_bands # {} /\ band \notin allowed_bands
    THEN "unapproved band"
    ELSE ""

\* base = next(iter(rsn_baseline.values())): the entry inserted first
RsnMismatch(baseline, allowed_bssids, akms, ciphers) ==
    /\ allowed_bssids # {}
    /\ baseline # <<>>
    /\ (akms # {} \/ ciphers # {})
    /\ LET base == baseline[1]
       IN  \/ (base.akms # {} /\ akms # {} /\ akms # base.akms)
           \/ (base.ciphers # {} /\ ciphers # {} /\ ciphers # base.ciphers)

\* _remember_eid: (returned value, deque, set)
RememberEid(ids, set, eid) ==
    IF eid \in set
    THEN [ok |-> FALSE, ids |-> ids, set |-> set]
    ELSE LET set1 == set \cup {eid}
             ids1 == LastN(Append(ids, eid), SeenMaxLen)
         IN  [ok  |-> TRUE,
              ids |-> ids1,
              set |-> IF Cardinality(set1) > Len(ids1) THEN SeqToSet(ids1) ELSE set1]

\* (allowed_bssids and bssid in allowed_bssids) or
\* (not allowed_bssids and bssid in tracked_bssids)
Tracked(bssid, allowed_bssids, tracked) ==
    \/ (allowed_bssids # {} /\ bssid \in allowed_bssids)
    \/ (allowed_bssids = {} /\ bssid \in tracked)

\* deque(maxlen=max(3, int(pwr_win)))
DequeMaxLen(win) == Max(MinPwrWindow, win)

\* dq.append(x) on a bounded deque
DequeAppend(dq, x, maxlen) == LastN(Append(dq, x), maxlen)

\* len(dq) >= max(3, int(pwr_win) // 2)
EnoughSamples(dq, win) == Len(dq) >= Max(MinPwrWindow, win \div 2)

\* statistics.pvariance(dq) > threshold, in exact arithmetic:
\* (sum(x^2)/n - (sum(x)/n)^2) > T  <=>  n*sum(x^2) - sum(x)^2 > T*n^2
VarianceExceeds(dq, threshold) ==
    LET n  == Len(dq)
        sq == [i \in DOMAIN dq |-> dq[i] * dq[i]]
    IN  n * SumSeq(sq) - SumSeq(dq) * SumSeq(dq) > threshold * n * n

\* last_pwr_alert_ts.get(bssid, 0.0)
LastPwrAlert(tbl, bssid) == IF bssid \in DOMAIN tbl THEN tbl[bssid] ELSE 0

\* mutant: no cooldown between power-variance alerts
PwrCooldownIgnored(t, last, cd) == TRUE

PwrCooldownOver(t, last, cd) == t - last >= cd

RogueAlert(t, reason, e, eid) ==
    [ts |-> t, severity |-> "warn", kind |-> "rogue_ap", total |-> 0, offenders |-> 0,
     reason |-> reason, bssid |-> e.bssid,
     eid |-> eid,   \* history: the event row the alert was raised for
     acknowledged |-> FALSE]

----------------------------------------------------------------------------
(* Environment: the capture worker and the API *)

Frame(type, src, bssid, ssid, chan, band, rssi, akms, ciphers) ==
    [type |-> type, src |-> src, bssid |-> bssid, ssid |-> ssid, chan |-> chan,
     band |-> band, rssi |-> rssi, rsn_akms |-> akms, rsn_ciphers |-> ciphers]

\* Event(ts=datetime.utcnow(), ...) committed by the capture worker.  The loop
\* reads the store only in TickBegin, so a commit during the beacon pass is
\* taken as a commit before the next TickBegin.
Ingest(frames, max) ==
    /\ pc = "tick"
    /\ Len(events) < max
    /\ \E f \in frames :
         events' = Append(events,
            [type |-> f.type, src |-> f.src, bssid |-> f.bssid, ssid |-> f.ssid,
             chan |-> f.chan, band |-> f.band, rssi |-> f.rssi,
             rsn_akms |-> f.rsn_akms, rsn_ciphers |-> f.rsn_ciphers, ts |-> now])
    /\ UNCHANGED <<now, alerts, cfgFile, cfgChanged, cfgWrites, cfgVars, deauthVars,
                   rogueVars, pc, beacons, captureVars>>

\* the API rewrites the config file: its mtime moves past cfg_mtime.  Only the
\* contents at the next stat matter, so rewrites between two ticks are one.
WriteConfig(configs) ==
    /\ pc = "tick"
    /\ ~cfgChanged
    /\ cfgWrites < MaxWrites
    /\ \E c \in configs \ {cfgFile} : cfgFile' = c
    /\ cfgChanged' = TRUE
    /\ cfgWrites' = cfgWrites + 1
    /\ UNCHANGED <<now, events, alerts, cfgVars, deauthVars, rogueVars, pc, beacons,
                   captureVars>>

----------------------------------------------------------------------------
(* The sensor loop *)

DefaultPwrWindow == 20
DefaultPwrVarThreshold == 150
DefaultPwrCooldown == 10

\* int(x or default)
OrElse(x, default) == IF x = 0 THEN default ELSE x

DefenseOf(c) ==
    [ssid |-> c.ssid, allowed_bssids |-> c.allowed_bssids,
     allowed_channels |-> c.allowed_channels, allowed_bands |-> c.allowed_bands]

\* mutant: the existing deques are left as they are
ResizeWindowsKept(wins, win) == wins

\* deque(dq, maxlen=max(3, int(pwr_win))) for every existing deque
ResizeWindows(wins, win) ==
    [b \in DOMAIN wins |-> LastN(wins[b], DequeMaxLen(win))]

\* the maxlen of every existing deque after that
ResizeCaps(caps, win) == [b \in DOMAIN caps |-> DequeMaxLen(win)]

\* the maxlen of the deque of bssid: its own, or that of a deque the
\* defaultdict creates now, max(3, int(pwr_win))
CapOf(caps, bssid, win) ==
    IF bssid \in DOMAIN caps THEN caps[bssid] ELSE DequeMaxLen(win)

\* select(Event).where(ts >= since).where(type == "mgmt.beacon")
\*   [.where(ssid == def_ssid) if armed and def_ssid], in id order
BeaconQuery(ev, since, d) ==
    LET ids == [i \in 1..Len(ev) |-> i]
        Hit(i) == /\ ev[i].ts >= since
                  /\ ev[i].type = "mgmt.beacon"
                  /\ (d.ssid # "" => ev[i].ssid = d.ssid)
    IN  SelectSeq(ids, Hit)

\* the options of the sniffer command that the watchers use: --rssi-window,
\* --var-threshold, and whether --anomaly-log names a file that could be opened
WatchOptions(rssi_window, var_threshold, anomaly_log) ==
    [rssi_window |-> rssi_window, var_threshold |-> var_threshold,
     anomaly_log |-> anomaly_log]

\* the defaults of the sniffer command: window 20, threshold 150.0, no file
DefaultOptions == WatchOptions(20, 150, FALSE)

\* what run_sniffer sets up before the loop: rssi_window=int(max(2, rssi_window))
\* from the command, defended_ssid and tracked_bssids from the defense section
\* of the config, and the empty tables of the watchers; anomalies is the
\* content appended to the anomaly log file
Watcher(c, o) ==
    [defended_ssid |-> c.ssid,
     tracked_bssids |-> {Lower(x) : x \in c.allowed_bssids},
     rssi_window |-> Max(2, o.rssi_window),
     var_threshold |-> o.var_threshold,
     anomaly_log |-> o.anomaly_log,
     essids_seen |-> <<>>, rssi_windows |-> <<>>,
     last_var_alert_ts |-> <<>>, last_essid_alert_ts |-> <<>>,
     anomalies |-> <<>>]

InitWatch(configs, hopfiles, stores, options) ==
    /\ now = StartTime
    /\ events = <<>>
    /\ alerts = <<>>
    /\ cfgFile \in configs
    /\ cfgChanged = FALSE
    /\ cfgWrites = 0
    /\ w = cfgFile.window_sec
    /\ per_src = cfgFile.per_src_limit
    /\ glob = cfgFile.global_limit
    /\ cooldown = cfgFile.cooldown_sec
    /\ pwr_win = OrElse(cfgFile.pwr_window, DefaultPwrWindow)
    /\ pwr_var_threshold = OrElse(cfgFile.pwr_var_threshold, DefaultPwrVarThreshold)
    /\ pwr_cooldown = OrElse(cfgFile.pwr_cooldown_sec, DefaultPwrCooldown)
    /\ defense = DefenseOf(cfgFile)
    /\ last_fire_ts = 0
    /\ last_sig = Null
    /\ rsn_baseline = <<>>
    /\ pwr_windows = <<>>
    /\ pwr_caps = <<>>
    /\ last_pwr_alert_ts = <<>>
    /\ tracked_bssids = {}
    /\ seen_beacon_ids = <<>>
    /\ seen_beacon_set = {}
    /\ pc = "tick"
    /\ beacons = <<>>
    /\ clock = StartClock
    /\ buf = <<>>
    /\ last_flush = 0
    /\ arrived = <<>>
    /\ worker = "running"
    /\ logs = <<>>
    /\ deauth_seen = {}
    /\ hopFile \in hopfiles
    /\ hopCfg = hopFile
    /\ hopWrites = 0
    /\ last_plan = <<>>
    /\ last_plan_key = Null
    /\ idx = 0
    /\ radio = Null
    /\ hop_cfg = Null
    /\ shuffles = 0
    /\ stop = FALSE
    /\ signal = Null
    /\ interrupted = FALSE
    /\ stop_evt = FALSE
    /\ hopper = "running"
    /\ sniffing = FALSE
    /\ backoff = BackoffStart
    /\ waited = Null
    /\ mark = 0
    /\ streak = 0
    /\ failures = 0
    /\ \E store \in stores :
         /\ columns = store.columns
         /\ indices = store.indices
         /\ opened = [wk \in Workers |-> store.opened]
    /\ opens = 0
    /\ apiCalls = 0
    /\ \E o \in options : watch = Watcher(cfgFile, o)
    /\ sse = [watermark |-> 0, sent |-> <<>>, clears |-> 0]

\* the state after construction, the sniffer having been started with the
\* defaults of its command
InitStore(configs, hopfiles, stores) ==
    InitWatch(configs, hopfiles, stores, {DefaultOptions})

\* the state after construction, every worker having opened a store that has
\* the current schema and both indices
InitWith(configs, hopfiles) == InitStore(configs, hopfiles, {CurrentStore})

\* the state after construction, the config having no capture.hop section
Init(configs) == InitWith(configs, {NoHop})

\* top of the loop body: hot reload, deauth detection, beacon query
TickBegin ==
    /\ pc = "tick"
    /\ now < StartTime + MaxTicks * TickSec
    /\ LET c        == cfgFile
           new_win  == IF cfgChanged THEN OrElse(c.pwr_window, pwr_win) ELSE pwr_win
           r        == detect_deauths(events, now, w', per_src', glob')
           sig      == Sig(r.total, r.offenders)
           too_soon == (now - last_fire_ts) < cooldown'
           same_as_before == (sig = last_sig)
           fire     == ShouldFire(r.triggered, too_soon, same_as_before)
       IN  /\ w' = IF cfgChanged THEN c.window_sec ELSE w
           /\ per_src' = IF cfgChanged THEN c.per_src_limit ELSE per_src
           /\ glob' = IF cfgChanged THEN c.global_limit ELSE glob
           /\ cooldown' = IF cfgChanged THEN c.cooldown_sec ELSE cooldown
           /\ defense' = IF cfgChanged THEN DefenseOf(c) ELSE defense
           /\ pwr_win' = new_win
           /\ pwr_var_threshold' =
                IF cfgChanged THEN OrElse(c.pwr_var_threshold, pwr_var_threshold)
                ELSE pwr_var_threshold
           /\ pwr_cooldown' =
                IF cfgChanged THEN OrElse(c.pwr_cooldown_sec, pwr_cooldown)
                ELSE pwr_cooldown
           /\ pwr_windows' =
                IF new_win # pwr_win THEN ResizeWindows(pwr_windows, new_win)
                ELSE pwr_windows
           /\ pwr_caps' =
                IF new_win # pwr_win THEN ResizeCaps(pwr_caps, new_win) ELSE pwr_caps
           /\ cfgChanged' = FALSE
           /\ alerts' =
                IF fire THEN Append(alerts, DeauthAlert(now, r.total, r.offenders, glob'))
                ELSE alerts
           /\ last_fire_ts' = IF fire THEN now ELSE last_fire_ts
           /\ last_sig' = IF fire THEN sig ELSE last_sig
           /\ beacons' = BeaconQuery(events, now - w', defense')
    /\ pc' = "beacons"
    /\ UNCHANGED <<now, events, cfgFile, cfgWrites, rsn_baseline, last_pwr_alert_ts,
                   tracked_bssids, seen_beacon_ids, seen_beacon_set, captureVars>>

\* one pass of `for e in beacons`
EvalBeacon ==
    /\ pc = "beacons"
    /\ beacons # <<>>
    /\ LET eid == Head(beacons)
           e   == events[eid]
           bssid            == BssidOf(e)
           allowed_bssids   == AllowedBssids(defense)
           allowed_channels == defense.allowed_channels
           allowed_bands    == defense.allowed_bands
           akms     == SplitSelectors(e.rsn_akms)
           ciphers  == SplitSelectors(e.rsn_ciphers)
           base1    == LearnBaseline(rsn_baseline, bssid, allowed_bssids, akms, ciphers)
           tracked1 == IF allowed_bssids = {} /\ bssid # ""
                       THEN tracked_bssids \cup {bssid} ELSE tracked_bssids
           policy   == PolicyReason(bssid, e.chan, e.band,
                                    allowed_bssids, allowed_channels, allowed_bands)
           reason0  == IF policy # "" THEN policy
                       ELSE IF RsnMismatch(base1, allowed_bssids, akms, ciphers)
                       THEN "RSN mismatch" ELSE ""
           enter    == reason0 = "" /\ bssid # ""
           rem      == IF enter THEN RememberEid(seen_beacon_ids, seen_beacon_set, eid)
                       ELSE [ok |-> FALSE, ids |-> seen_beacon_ids, set |-> seen_beacon_set]
           sample   == /\ enter
                       /\ rem.ok
                       /\ e.rssi # Null
                       /\ Tracked(bssid, allowed_bssids, tracked1)
           dq0      == IF bssid \in DOMAIN pwr_windows THEN pwr_windows[bssid] ELSE <<>>
           cap      == CapOf(pwr_caps, bssid, pwr_win)
           dq1      == DequeAppend(dq0, e.rssi[1], cap)
           pwr_fire == /\ sample
                       /\ EnoughSamples(dq1, pwr_win)
                       /\ VarianceExceeds(dq1, pwr_var_threshold)
                       /\ PwrCooldownOver(now, LastPwrAlert(last_pwr_alert_ts, bssid),
                                          pwr_cooldown)
           reason   == IF pwr_fire THEN "power variance" ELSE reason0
       IN  IF ~armed
           THEN \* break
                /\ beacons' = <<>>
                /\ UNCHANGED <<alerts, rogueVars>>
           ELSE IF e.ssid = None \/ e.ssid # def_ssid
           THEN \* continue
                /\ beacons' = Tail(beacons)
                /\ UNCHANGED <<alerts, rogueVars>>
           ELSE /\ beacons' = Tail(beacons)
                /\ rsn_baseline' = base1
                /\ tracked_bssids' = tracked1
                /\ seen_beacon_ids' = rem.ids
                /\ seen_beacon_set' = rem.set
                /\ pwr_windows' =
                     IF sample THEN (bssid :> dq1) @@ pwr_windows ELSE pwr_windows
                /\ pwr_caps' =
                     IF sample THEN (bssid :> cap) @@ pwr_caps ELSE pwr_caps
                /\ last_pwr_alert_ts' =
                     IF pwr_fire THEN (bssid :> now) @@ last_pwr_alert_ts
                     ELSE last_pwr_alert_ts
                /\ alerts' =
                     IF reason # "" THEN Append(alerts, RogueAlert(now, reason, e, eid))
                     ELSE alerts
    /\ UNCHANGED <<now, events, cfgFile, cfgChanged, cfgWrites, cfgVars, deauthVars, pc,
                   captureVars>>

\* end of the loop body: time.sleep(2)
Sleep ==
    /\ pc = "beacons"
    /\ beacons = <<>>
    /\ now' = now + TickSec
    /\ pc' = "tick"
    /\ UNCHANGED <<events, alerts, cfgFile, cfgChanged, cfgWrites, cfgVars, deauthVars,
                   rogueVars, beacons, captureVars>>

----------------------------------------------------------------------------
(* Deauth detection: floods from a few sources, armed or not *)

Config(ssid, bssids, chans, bands, wsec, psl, gl, cd, pw, pvt, pcd) ==
    [ssid |-> ssid, allowed_bssids |-> bssids, allowed_channels |-> chans,
     allowed_bands |-> bands, window_sec |-> wsec, per_src_limit |-> psl,
     global_limit |-> gl, cooldown_sec |-> cd, pwr_window |-> pw,
     pwr_var_threshold |-> pvt, pwr_cooldown_sec |-> pcd]

DeauthConfigs ==
    {Config("", {}, {}, {}, 4, 2, 1, 4, 3, 150, 4),
     Config("home", {}, {}, {}, 4, 2, 2, 6, 3, 150, 4)}

DeauthFrames ==
    {Frame("mgmt.deauth", src, "aa:01", None, 6, "2.4", <<-50>>, Null, Null) :
        src \in {"aa:01", "AA:01", None}}
    \cup {Frame("mgmt.disassoc", "aa:01", "aa:01", None, 6, "2.4", <<-50>>, Null, Null),
          Frame("mgmt.beacon", "aa:01", "aa:01", "home", 6, "2.4", <<-50>>, Null, Null)}

IngestDeauth == Ingest(DeauthFrames, MaxEvents)
WriteConfigDeauth == WriteConfig(DeauthConfigs)

InitDeauth == Init(DeauthConfigs)
NextDeauth == IngestDeauth \/ WriteConfigDeauth \/ TickBegin \/ EvalBeacon \/ Sleep
Spec == InitDeauth /\ [][NextDeauth]_vars

----------------------------------------------------------------------------
(* Properties of the deauth detector.  What a tick should do is restated    *)
(* here from the events in the store, without the detector's own operators. *)

\* the mgmt.deauth events whose ts lies in the last wsec seconds before t
WindowDeauths(ev, t, wsec) ==
    {i \in DOMAIN ev : ev[i].type = "mgmt.deauth" /\ t - ev[i].ts <= wsec}

\* the source an event is counted under
SourceOf(e) == IF e.src = None THEN "unknown" ELSE Lower(e.src)

CountOf(ev, t, wsec, s) ==
    Cardinality({i \in WindowDeauths(ev, t, wsec) : SourceOf(ev[i]) = s})

SourcesAtLeast(ev, t, wsec, limit) ==
    {s \in {SourceOf(ev[i]) : i \in WindowDeauths(ev, t, wsec)} :
        CountOf(ev, t, wsec, s) >= limit}

SourcesAbove(ev, t, wsec, limit) ==
    {s \in {SourceOf(ev[i]) : i \in WindowDeauths(ev, t, wsec)} :
        CountOf(ev, t, wsec, s) > limit}

\* a step that runs the top of the loop body; the thresholds in force on the
\* tick are the primed ones (the hot reload comes first)
TickStep == pc = "tick" /\ pc' = "beacons"

\* the deauth_flood alerts appended by the step
NewFloods ==
    {i \in (Len(alerts) + 1)..Len(alerts') : alerts'[i].kind = "deauth_flood"}

TickTotal == Cardinality(WindowDeauths(events, now, w'))
TickOffenders == SourcesAtLeast(events, now, w', per_src')

\* the tick's signature equals the last fired one and the cooldown is running
Suppressed ==
    /\ last_sig # Null
    /\ last_sig[2] = TickTotal
    /\ last_sig[3] = TickOffenders
    /\ now - last_fire_ts < cooldown'

\* in a state inside a tick: the deauth detection of this tick has fired
FiredThisTick ==
    /\ pc = "beacons"
    /\ last_fire_ts = now
    /\ \E i \in DOMAIN alerts : alerts[i].kind = "deauth_flood" /\ alerts[i].ts = now

\* C1: a tick appends a deauth_flood alert only if the deauth events of the
\* last window_sec (disassoc and beacon events not counted) number at least
\* global_limit; if they do and the signature is not suppressed by the
\* cooldown, it appends exactly one, with or without offenders, armed or not.
C1_FiresOnGlobalLimit ==
    [][TickStep =>
        /\ Cardinality(NewFloods) <= 1
        /\ (NewFloods # {} => TickTotal >= glob')
        /\ (TickTotal >= glob' /\ ~Suppressed => Cardinality(NewFloods) = 1)]_vars

\* a flood alert fired with no offender and no defended SSID, while disassoc
\* and beacon events were in the window
C1_Witness ==
    /\ FiredThisTick
    /\ defense.ssid = ""
    /\ SourcesAtLeast(events, now, w, per_src) = {}
    /\ \E i \in DOMAIN events : events[i].type = "mgmt.disassoc" /\ events[i].ts = now
    /\ \E i \in DOMAIN events : events[i].type = "mgmt.beacon" /\ events[i].ts = now

\* C2: a tick whose signature equals that of the most recently fired alert,
\* less than cooldown_sec after that alert, appends no deauth_flood alert.
C2_SameSignatureSuppressed ==
    [][TickStep /\ Suppressed =>
        /\ NewFloods = {}
        /\ last_fire_ts' = last_fire_ts
        /\ last_sig' = last_sig]_vars

\* a tick above the limit that did not fire: same signature, cooldown running
C2_Witness ==
    /\ pc = "beacons"
    /\ Cardinality(WindowDeauths(events, now, w)) >= glob
    /\ last_sig = Sig(Cardinality(WindowDeauths(events, now, w)),
                      SourcesAtLeast(events, now, w, per_src))
    /\ last_fire_ts < now
    /\ now - last_fire_ts < cooldown
    /\ Cardinality({i \in DOMAIN alerts : alerts[i].kind = "deauth_flood"}) = 1

\* C3: a tick at or above global_limit whose signature differs from the last
\* fired one (in total or in offender set) appends an alert even inside the
\* cooldown, and the cooldown restarts from this firing with this signature.
C3_ChangedSignatureFires ==
    [][TickStep /\ TickTotal >= glob'
         /\ (last_sig = Null \/ last_sig[2] # TickTotal \/ last_sig[3] # TickOffenders) =>
        /\ Cardinality(NewFloods) = 1
        /\ last_fire_ts' = now
        /\ last_sig' = Sig(TickTotal, TickOffenders)]_vars

\* two flood alerts less than cooldown_sec apart
C3_Witness ==
    /\ FiredThisTick
    /\ \E i \in DOMAIN alerts :
         /\ alerts[i].kind = "deauth_flood"
         /\ alerts[i].ts < now
         /\ now - alerts[i].ts < cooldown
         /\ alerts[i].total # last_sig[2]

\* C4: a deauth_flood alert is critical exactly when its total is at least
\* twice the global_limit in force on its tick, and warn otherwise.
C4_Severity ==
    [][TickStep =>
        \A i \in NewFloods :
            /\ alerts'[i].total = TickTotal
            /\ alerts'[i].severity \in {"warn", "critical"}
            /\ (alerts'[i].severity = "critical" <=> TickTotal >= 2 * glob')]_vars

\* a critical alert fired at exactly twice the limit, after a warn alert
C4_Witness ==
    /\ FiredThisTick
    /\ last_sig[2] = 2 * glob
    /\ alerts[Len(alerts)].severity = "critical"
    /\ \E i \in DOMAIN alerts :
         alerts[i].kind = "deauth_flood" /\ alerts[i].severity = "warn"

\* C5 as stated: the offenders of a fired tick are the sources whose count is
\* above per_src_limit (count > per_src_limit).
C5_OffendersAbove ==
    FiredThisTick =>
        /\ last_sig[3] = SourcesAbove(events, now, w, per_src)
        /\ alerts[Len(alerts)].offenders =
             Cardinality(SourcesAbove(events, now, w, per_src))

\* C5 amended: the offenders of a fired tick are exactly the sources whose
\* count is at least per_src_limit (count >= per_src_limit), with a missing
\* src counted under "unknown" and MACs compared case-insensitively.
C5_OffendersAtLeast ==
    FiredThisTick =>
        /\ last_sig[3] = SourcesAtLeast(events, now, w, per_src)
        /\ alerts[Len(alerts)].offenders =
             Cardinality(SourcesAtLeast(events, now, w, per_src))

\* a fired tick where a MAC seen once in each spelling is an offender at
\* exactly per_src_limit, and the source "unknown" is below it
C5_Witness ==
    /\ FiredThisTick
    /\ last_sig[3] = {"aa:01"}
    /\ per_src = 2
    /\ \E i, j, k \in WindowDeauths(events, now, w) :
         events[i].src = "AA:01" /\ events[j].src = "aa:01" /\ events[k].src = None
    /\ alerts[Len(alerts)].offenders = 1

----------------------------------------------------------------------------
(* Rogue policy: beacons of the defended SSID against the three allowlists *)

PolicyConfigs ==
    {Config("home", {"AA:01"}, {36}, {"5"}, 4, 2, 2, 4, 3, 150, 4),
     Config("home", {}, {36}, {"5"}, 4, 2, 2, 4, 3, 150, 4),
     Config("home", {}, {}, {}, 4, 2, 2, 4, 3, 150, 4)}

PolicyFrames ==
    {Frame("mgmt.beacon", b, b, "home", cb[1], cb[2], <<-50>>, Null, Null) :
        b \in {"aa:01", "de:01"}, cb \in {<<36, "5">>, <<40, "5">>, <<6, "2.4">>}}

IngestPolicy == Ingest(PolicyFrames, MaxBeacons)
WriteConfigPolicy == WriteConfig(PolicyConfigs)

InitPolicy == Init(PolicyConfigs)
NextPolicy == IngestPolicy \/ WriteConfigPolicy \/ TickBegin \/ EvalBeacon \/ Sleep
SpecPolicy == InitPolicy /\ [][NextPolicy]_vars

\* a step that evaluates one beacon of the defended SSID
EvalStep ==
    /\ pc = "beacons"
    /\ beacons # <<>>
    /\ beacons' = Tail(beacons)
    /\ defense.ssid # ""
    /\ events[Head(beacons)].ssid = defense.ssid

Evaluated == events[Head(beacons)]
EvaluatedBssid ==
    IF Evaluated.bssid = None THEN "" ELSE Lower(Evaluated.bssid)

\* the rogue_ap alerts appended by the step
NewRogues ==
    {i \in (Len(alerts) + 1)..Len(alerts') : alerts'[i].kind = "rogue_ap"}

PolicyReasons == {"unknown BSSID", "unapproved channel", "unapproved band"}

BssidListed ==
    \E b \in defense.allowed_bssids : Lower(b) = EvaluatedBssid

BssidPasses == defense.allowed_bssids = {} \/ BssidListed
ChannelPasses ==
    defense.allowed_channels = {} \/ Evaluated.chan \in defense.allowed_channels
BandPasses ==
    defense.allowed_bands = {} \/ Evaluated.band \in defense.allowed_bands

\* exactly one rogue_ap alert is appended, with this reason, for this beacon
AlertsWith(reason) ==
    /\ Cardinality(NewRogues) = 1
    /\ Len(alerts') = Len(alerts) + 1
    /\ alerts'[Len(alerts')].reason = reason
    /\ alerts'[Len(alerts')].bssid = Evaluated.bssid

\* C6: for each beacon of the defended SSID that the loop evaluates, the
\* reason is that of the first failing check in the order BSSID allowlist,
\* allowed channels, allowed bands; a list that is empty fails no beacon.
C6_PolicyOrder ==
    [][EvalStep =>
        /\ (~BssidPasses => AlertsWith("unknown BSSID"))
        /\ (BssidPasses /\ ~ChannelPasses => AlertsWith("unapproved channel"))
        /\ (BssidPasses /\ ChannelPasses /\ ~BandPasses => AlertsWith("unapproved band"))
        /\ (BssidPasses /\ ChannelPasses /\ BandPasses =>
              \A i \in NewRogues : alerts'[i].reason \notin PolicyReasons)]_vars

\* with the start-up policy {AA:01}, {36}, {"5"} still in force: a beacon that
\* fails all three checks was reported as unknown BSSID, and a beacon of the
\* allowlisted BSSID on channel 40 as unapproved channel
C6_Witness ==
    /\ cfgWrites = 0
    /\ defense.allowed_bssids = {"AA:01"}
    /\ \E i, j \in DOMAIN alerts :
         /\ alerts[i].reason = "unknown BSSID"
         /\ events[alerts[i].eid].chan = 6
         /\ events[alerts[i].eid].band = "2.4"
         /\ alerts[j].reason = "unapproved channel"
         /\ events[alerts[j].eid].bssid = "aa:01"
         /\ events[alerts[j].eid].chan = 40

\* C7 as stated: a beacon event of the defended SSID from a BSSID outside the
\* configured allowlist yields one rogue_ap alert over the whole run, however
\* many ticks read it again while it is inside the window.
C7_OneAlertPerRogueBeacon ==
    \A i \in DOMAIN events :
        (/\ cfgWrites = 0
         /\ defense.allowed_bssids # {}
         /\ events[i].type = "mgmt.beacon"
         /\ events[i].ssid = defense.ssid
         /\ \A b \in defense.allowed_bssids : Lower(b) # Lower(events[i].bssid))
        => Cardinality({k \in DOMAIN alerts :
                          alerts[k].kind = "rogue_ap" /\ alerts[k].eid = i}) <= 1

----------------------------------------------------------------------------
(* RSN baseline: beacons of two allowlisted BSSIDs with differing RSN        *)

RsnConfigs ==
    {Config("home", {"aa:01", "bb:02"}, {}, {}, 4, 2, 2, 4, 3, 150, 4),
     Config("home", {"aa:01"}, {36}, {}, 4, 2, 2, 4, 3, 150, 4)}

\* rsn_akms / rsn_ciphers as the capture worker writes them: NULL without an
\* RSN element, else the comma-joined sorted selectors ("" for an empty set)
RsnFrames ==
    {Frame("mgmt.beacon", "aa:01", "aa:01", "home", 6, "2.4", <<-50>>, r[1], r[2]) :
        r \in {<<Null, Null>>,
               << <<<<"ak1">>>>, <<<<"cp1">>>> >>,
               << <<<<"ak2">>>>, <<<<"cp1">>>> >>,
               << <<<<>>>>, <<<<"cp1">>>> >>}}
    \cup {Frame("mgmt.beacon", "bb:02", "bb:02", "home", 6, "2.4", <<-50>>,
                <<<<"ak1">>>>, <<<<"cp1">>>>)}

IngestRsn == Ingest(RsnFrames, MaxBeacons)
WriteConfigRsn == WriteConfig(RsnConfigs)

InitRsn == Init(RsnConfigs)
NextRsn == IngestRsn \/ WriteConfigRsn \/ TickBegin \/ EvalBeacon \/ Sleep
SpecRsn == InitRsn /\ [][NextRsn]_vars

\* the selectors a column holds
Selectors(col) == IF col = Null THEN {} ELSE {col[1][i] : i \in DOMAIN col[1]}

\* the baseline entry recorded for a BSSID
BaselineOf(b) ==
    rsn_baseline[CHOOSE k \in DOMAIN rsn_baseline : rsn_baseline[k].bssid = b]

HasBaseline(b) == \E k \in DOMAIN rsn_baseline : rsn_baseline[k].bssid = b

CarriesRsn(e) == Selectors(e.rsn_akms) # {} \/ Selectors(e.rsn_ciphers) # {}

\* C8 as stated: once a baseline is learned for allowlisted BSSID A, a later
\* beacon from A that passes the BSSID, channel and band checks produces an
\* RSN-mismatch alert exactly when its AKM set or its cipher set differs from
\* A's own baseline, whatever baselines other BSSIDs have.
C8_MismatchAgainstOwnBaseline ==
    [][EvalStep /\ BssidListed /\ ChannelPasses /\ BandPasses
         /\ HasBaseline(EvaluatedBssid) =>
        ((\E i \in NewRogues : alerts'[i].reason = "RSN mismatch")
          <=> \/ Selectors(Evaluated.rsn_akms) # BaselineOf(EvaluatedBssid).akms
              \/ Selectors(Evaluated.rsn_ciphers) # BaselineOf(EvaluatedBssid).ciphers)]_vars

\* C9: the baseline of an allowlisted BSSID is set by the first evaluated
\* beacon of the defended SSID from it that carries a non-empty RSN; no step
\* (beacon, tick, reload) changes or removes an entry; an entry is only ever
\* recorded for a BSSID in the allowlist in force at that evaluation.
C9_BaselineSetOnce ==
    [][/\ \A k \in DOMAIN rsn_baseline :
            k \in DOMAIN rsn_baseline' /\ rsn_baseline'[k] = rsn_baseline[k]
       /\ Len(rsn_baseline') <= Len(rsn_baseline) + 1
       /\ (Len(rsn_baseline') = Len(rsn_baseline) + 1 =>
             /\ EvalStep
             /\ BssidListed
             /\ CarriesRsn(Evaluated)
             /\ ~HasBaseline(EvaluatedBssid)
             /\ rsn_baseline'[Len(rsn_baseline')] =
                  [bssid   |-> EvaluatedBssid,
                   akms    |-> Selectors(Evaluated.rsn_akms),
                   ciphers |-> Selectors(Evaluated.rsn_ciphers)])
       /\ (EvalStep /\ BssidListed /\ CarriesRsn(Evaluated)
             /\ ~HasBaseline(EvaluatedBssid) =>
             Len(rsn_baseline') = Len(rsn_baseline) + 1)]_vars

\* the baseline of aa:01 was learned under the start-up policy (its beacon
\* raised no alert on its first tick); after the reload a beacon of aa:01
\* with another RSN was evaluated (and reported for its channel), and the
\* baseline is still the one learned first
C9_Witness ==
    /\ cfgWrites = 1
    /\ ~cfgChanged
    /\ defense.allowed_channels = {36}
    /\ HasBaseline("aa:01")
    /\ BaselineOf("aa:01").akms = {"ak1"}
    /\ \E i \in DOMAIN events :
         /\ Selectors(events[i].rsn_akms) = {"ak1"}
         /\ ~\E k \in DOMAIN alerts : alerts[k].eid = i /\ alerts[k].ts = events[i].ts
    /\ \E k \in DOMAIN alerts :
         /\ alerts[k].reason = "unapproved channel"
         /\ events[alerts[k].eid].bssid = "aa:01"
         /\ Selectors(events[alerts[k].eid].rsn_akms) = {"ak2"}

----------------------------------------------------------------------------
(* Power variance: RSSI samples of one BSSID, allowlisted or learned         *)

PwrConfigs ==
    {Config("home", {}, {}, {}, 4, 2, 2, 4, 7, 150, 4),
     Config("home", {"aa:01"}, {}, {}, 4, 2, 2, 4, 8, 300, 2)}

PwrFrames ==
    {Frame("mgmt.beacon", "aa:01", "aa:01", "home", 6, "2.4", rssi, Null, Null) :
        rssi \in {<<-40>>, <<-80>>, Null}}

IngestPwr == Ingest(PwrFrames, MaxSamples)
WriteConfigPwr == WriteConfig(PwrConfigs)

InitPwr == Init(PwrConfigs)
NextPwr == IngestPwr \/ WriteConfigPwr \/ TickBegin \/ EvalBeacon \/ Sleep
SpecPwr == InitPwr /\ [][NextPwr]_vars

\* the step consumes the evaluated beacon: it passes the policy and RSN
\* checks, its BSSID is tracked, its id was not remembered and it has an RSSI
Consumes ==
    /\ EvalStep
    /\ BssidPasses /\ ChannelPasses /\ BandPasses
    /\ ~\E i \in NewRogues : alerts'[i].reason = "RSN mismatch"
    /\ EvaluatedBssid # ""
    /\ Head(beacons) \notin seen_beacon_set
    /\ Evaluated.rssi # Null

\* the times of the power-variance alerts already in the store for a BSSID
PwrAlertTimes(b) ==
    {alerts[k].ts : k \in {j \in DOMAIN alerts :
        alerts[j].reason = "power variance" /\ Lower(alerts[j].bssid) = b}}

\* population variance of the samples > threshold, from its definition
\* sum((x - mean)^2) / n with mean = sum(x) / n, scaled by n^3
PopVarianceAbove(dq, threshold) ==
    LET n == Len(dq)
        S == SumSeq(dq)
        d == [i \in DOMAIN dq |-> (n * dq[i] - S) * (n * dq[i] - S)]
    IN  SumSeq(d) > threshold * n * n * n

SamplesOf(b) ==
    {i \in DOMAIN events : /\ events[i].type = "mgmt.beacon"
                           /\ events[i].bssid # None
                           /\ Lower(events[i].bssid) = b
                           /\ events[i].rssi # Null}

\* C11 as stated: the RSSI of a beacon event is appended to the deque of its
\* BSSID at most once over the run, however often the event is read again and
\* however many events were remembered; so a deque (whose capacity is never
\* reached here) holds at most one sample per beacon event of its BSSID.
C11_AppendedAtMostOnce ==
    \A b \in DOMAIN pwr_windows :
        Len(pwr_windows[b]) < DequeMaxLen(pwr_win) =>
            Len(pwr_windows[b]) <= Cardinality(SamplesOf(b))


----------------------------------------------------------------------------
(* Capture: _derive_chan_band *)

\* the value of elt.info[0] is one byte
MaxDs == 255

\* a sniffed frame, as far as handle() looks at it: whether it has a Dot11
\* layer, which of Dot11Beacon / Dot11Deauth / Dot11Disas it has ("other" for
\* none), the SSID element, addr1..addr3, the info bytes of a DS Parameter
\* Set element (ID 3) if there is one, the radiotap ChannelFrequency and
\* dBm_AntSignal if there are
Packet(dot11, layer, ssid, addr1, addr2, addr3, has_ds, ds_info, has_freq, freq, rssi) ==
    [dot11 |-> dot11, layer |-> layer, ssid |-> ssid, addr1 |-> addr1, addr2 |-> addr2,
     addr3 |-> addr3, has_ds |-> has_ds, ds_info |-> ds_info, has_freq |-> has_freq,
     freq |-> freq, rssi |-> rssi]

\* int(round(x / 5.0)) for x >= 0; Python rounds a tie to the even integer
RoundFifth(x) ==
    LET q == x \div 5
        r == x % 5
    IN  IF 2 * r < 5 THEN q
        ELSE IF 2 * r > 5 THEN q + 1
        ELSE IF q % 2 = 0 THEN q ELSE q + 1

\* if getattr(elt, 'ID', None) == 3 and len(elt.info) >= 1: chan = int(elt.info[0])
DsChan(pkt) ==
    IF pkt.has_ds /\ Len(pkt.ds_info) >= 1 THEN <<pkt.ds_info[1]>> ELSE Null

\* band inference from a DS channel
BandOfChan(chan) ==
    IF 1 <= chan /\ chan <= 14 THEN "2.4"
    ELSE IF 36 <= chan /\ chan <= 196 THEN "5"
    ELSE IF 1 <= chan /\ chan <= 233 THEN "6"
    ELSE "?"

\* channel and band from the radiotap frequency
FromFreq(freq) ==
    IF 2412 <= freq /\ freq <= 2484
    THEN [chan |-> RoundFifth(freq - 2407), band |-> "2.4"]
    ELSE IF 5000 <= freq /\ freq <= 5900
    THEN [chan |-> RoundFifth(freq - 5000), band |-> "5"]
    ELSE IF 5955 <= freq /\ freq <= 7115
    THEN [chan |-> RoundFifth(freq - 5955) + 1, band |-> "6"]
    ELSE [chan |-> 0, band |-> "?"]

\* mutant: the radiotap frequency is preferred to the DS Parameter Set
derive_chan_band_radiotap_first(pkt) ==
    IF pkt.has_freq THEN FromFreq(pkt.freq)
    ELSE IF DsChan(pkt) # Null
    THEN [chan |-> DsChan(pkt)[1], band |-> BandOfChan(DsChan(pkt)[1])]
    ELSE [chan |-> 0, band |-> "?"]

derive_chan_band(pkt) ==
    IF DsChan(pkt) # Null
    THEN [chan |-> DsChan(pkt)[1], band |-> BandOfChan(DsChan(pkt)[1])]
    ELSE IF pkt.has_freq THEN FromFreq(pkt.freq)
    ELSE [chan |-> 0, band |-> "?"]

----------------------------------------------------------------------------
(* Capture: handle(), flush() and the end of run_sniffer *)

\* the frames handle() persists
Persisted(pkt) == pkt.dot11 /\ pkt.layer \in {"beacon", "deauth", "disas"}

ev_type(pkt) ==
    CASE pkt.layer = "beacon" -> "mgmt.beacon"
      [] pkt.layer = "deauth" -> "mgmt.deauth"
      [] pkt.layer = "disas"  -> "mgmt.disassoc"
      [] OTHER -> None

\* e = Event(ts=datetime.utcnow(), type=ev_type, band=..., chan=..., ...);
\* parse_rsn is off by default: rsn = {} and both RSN columns are NULL.
\* n is history: the arrival number of the frame
BuildEvent(pkt, t, n) ==
    [type |-> ev_type(pkt),
     band |-> derive_chan_band(pkt).band,
     chan |-> derive_chan_band(pkt).chan,
     src |-> pkt.addr2, dst |-> pkt.addr1, bssid |-> pkt.addr3,
     ssid |-> IF pkt.layer = "beacon" THEN pkt.ssid ELSE None,
     rssi |-> pkt.rssi, rsn_akms |-> Null, rsn_ciphers |-> Null,
     ts |-> t, n |-> n]

\* (len(handle._buf) >= 400) or (now - handle._last_flush >= 0.8)
ShouldFlush(len, t, last) == len >= FlushBatch \/ t - last >= FlushIntervalMs

\* how a flush can end: bulk_save_objects and commit succeed ("bulk"); the
\* bulk insert raises, every object is added one by one and the commit
\* succeeds ("add"); the commit raises, nothing is inserted ("raise")
FlushOutcomes == {"bulk", "add", "raise"}

\* history: the number of the batch a commit inserts
NextBatch(store) == IF store = <<>> THEN 1 ELSE store[Len(store)].batch + 1

\* mutant: the objects of a batch are inserted last first
CommitReversed(store, b, via) ==
    store \o [i \in 1..Len(b) |->
                 b[Len(b) + 1 - i] @@ [batch |-> NextBatch(store), via |-> via]]

\* db.bulk_save_objects(handle._buf) / for x in handle._buf: db.add(x), then
\* db.commit(): one transaction; the rows get the next ids in list order
Commit(store, b, via) ==
    store \o [i \in 1..Len(b) |-> b[i] @@ [batch |-> NextBatch(store), via |-> via]]

\* mutant: the buffer is not cleared after the commit
BufferKept(b) == b

\* handle._buf.clear()
BufferCleared(b) == <<>>

\* log_db(level, msg) swallows its own failure: the row is written or not
LogDb(tbl, level, msg, n, written) ==
    IF written THEN Append(tbl, [level |-> level, message |-> msg, n |-> n]) ELSE tbl

\* ---- the in-line anomaly watchers of run_sniffer ----

\* time.time() - last_ts.get(b, 0.0) > 5.0 at time t (milliseconds):
\* time.time() counts from 1970, so a BSSID without an entry is always due
AlertDue(tbl, b, t) == b \notin DOMAIN tbl \/ t - tbl[b] > 5 * MsPerSec

\* mutant: the rate limit of the anomaly entries is not applied
AlertAlwaysDue(tbl, b, t) == TRUE

\* _anomaly_log(msg): the entry is written when the file is open
AnomalyLog(wt, kind, b, t) ==
    IF wt.anomaly_log
    THEN Append(wt.anomalies, [kind |-> kind, bssid |-> b, t |-> t])
    ELSE wt.anomalies

\* len(win) >= max(3, int(rssi_window) // 2)
EnoughRssi(win, n) == Len(win) >= Max(3, n \div 2)

\* the ESSID-flip watcher on a frame of a watched BSSID b
WatchEssid(wt, b, ssid, t) ==
    LET seen0 == IF b \in DOMAIN wt.essids_seen THEN wt.essids_seen[b] ELSE {}
        seen1 == seen0 \cup {ssid}
        flip  == Cardinality(seen1) > 1 /\ Cardinality(seen0) <= 1
        fire  == flip /\ AlertDue(wt.last_essid_alert_ts, b, t)
    IN  [wt EXCEPT !.essids_seen = (b :> seen1) @@ @,
                   !.anomalies = IF fire THEN AnomalyLog(wt, "essid", b, t) ELSE @,
                   !.last_essid_alert_ts = IF fire THEN (b :> t) @@ @ ELSE @]

\* the PWR watcher on a frame of a watched BSSID b carrying an RSSI;
\* win is rssi_windows[b], a deque(maxlen=max(2, int(rssi_window)))
WatchPwr(wt, b, rssi, t) ==
    LET win0 == IF b \in DOMAIN wt.rssi_windows THEN wt.rssi_windows[b] ELSE <<>>
        win  == DequeAppend(win0, rssi, Max(2, wt.rssi_window))
        fire == /\ EnoughRssi(win, wt.rssi_window)
                /\ VarianceExceeds(win, wt.var_threshold)
                /\ AlertDue(wt.last_var_alert_ts, b, t)
    IN  [wt EXCEPT !.rssi_windows = (b :> win) @@ @,
                   !.anomalies = IF fire THEN AnomalyLog(wt, "pwr", b, t) ELSE @,
                   !.last_var_alert_ts = IF fire THEN (b :> t) @@ @ ELSE @]

\* the watcher block of handle() on a persisted frame at time t: a BSSID is
\* learned only while tracked_bssids is empty; a frame is watched when its
\* BSSID is tracked or it advertises the defended SSID
WatchFrame(wt, pkt, t) ==
    LET ssid    == IF pkt.layer = "beacon" THEN pkt.ssid ELSE None
        named   == ssid # None /\ ssid # ""
        b       == IF pkt.addr3 = None THEN "" ELSE Lower(pkt.addr3)
        defends == wt.defended_ssid # "" /\ ssid = wt.defended_ssid
        learn   == wt.tracked_bssids = {} /\ defends /\ named /\ b # ""
        wt1     == IF learn THEN [wt EXCEPT !.tracked_bssids = {b}] ELSE wt
        watched == b # "" /\ (b \in wt1.tracked_bssids \/ defends)
        wt2     == IF watched /\ named THEN WatchEssid(wt1, b, ssid, t) ELSE wt1
    IN  IF watched /\ pkt.rssi # Null THEN WatchPwr(wt2, b, pkt.rssi[1], t) ELSE wt2

\* handle(pkt), and what run_sniffer does when handle raises: the exception
\* leaves sniff() and is logged as "sniffer socket error: ...; retrying"
Handle(packets, max) ==
    /\ worker = "running"
    /\ Len(arrived) < max
    /\ \E pkt \in packets, outcome \in FlushOutcomes, written \in BOOLEAN :
         LET n    == Len(arrived) + 1
             buf1 == Append(buf, BuildEvent(pkt, clock, n))
         IN  /\ arrived' = Append(arrived, pkt)
             /\ IF ~Persisted(pkt)
                THEN \* return
                     UNCHANGED <<events, buf, last_flush, logs, watch>>
                ELSE IF ~ShouldFlush(Len(buf1), clock, last_flush)
                THEN /\ buf' = buf1
                     /\ watch' = WatchFrame(watch, pkt, clock)
                     /\ UNCHANGED <<events, last_flush, logs>>
                ELSE IF outcome = "raise"
                THEN \* the exception leaves handle() before the watchers
                     /\ buf' = buf1
                     /\ logs' = LogDb(logs, "warn", "sniffer socket error", n, written)
                     /\ UNCHANGED <<events, last_flush, watch>>
                ELSE /\ events' = Commit(events, buf1, outcome)
                     /\ buf' = BufferCleared(buf1)
                     /\ last_flush' = clock
                     /\ watch' = WatchFrame(watch, pkt, clock)
                     /\ UNCHANGED logs
    /\ UNCHANGED <<sse, now, alerts, cfgFile, cfgChanged, cfgWrites, cfgVars, deauthVars,
                   rogueVars, pc, beacons, clock, worker, deauth_seen, hopVars>>

\* time passes in the capture worker (no frame arrives, or the worker waits
\* for its backoff)
Wait ==
    /\ clock < StartClock + MaxWaits * ClockStep
    /\ clock' = clock + ClockStep
    /\ UNCHANGED <<sse, watch, now, events, alerts, cfgFile, cfgChanged, cfgWrites, cfgVars,
                   deauthVars, rogueVars, pc, beacons, buf, last_flush, arrived,
                   worker, logs, deauth_seen, hopVars>>

\* the worker ends.  "finally": an exception that `except Exception` does not
\* catch leaves the sniff loop and the finally clause runs flush() and
\* log_db("info", "sniffer stopped"); an exception of the final commit leaves
\* the clause before the buffer is cleared and before the log ("raised").
\* "killed": SIGTERM, for which the sniffer installs no handler, ends the
\* process at once (the dev launcher stops its children with
\* os.killpg(pid, SIGTERM)).
Exit ==
    /\ worker = "running"
    /\ \E how \in {"finally", "killed"}, outcome \in FlushOutcomes, written \in BOOLEAN :
         IF how = "killed"
         THEN /\ worker' = "killed"
              /\ UNCHANGED <<events, buf, logs>>
         ELSE IF buf = <<>>
         THEN /\ worker' = "stopped"
              /\ logs' = LogDb(logs, "info", "sniffer stopped", 0, written)
              /\ UNCHANGED <<events, buf>>
         ELSE IF outcome = "raise"
         THEN /\ worker' = "raised"
              /\ UNCHANGED <<events, buf, logs>>
         ELSE /\ worker' = "stopped"
              /\ events' = Commit(events, buf, outcome)
              /\ buf' = BufferCleared(buf)
              /\ logs' = LogDb(logs, "info", "sniffer stopped", 0, written)
    /\ UNCHANGED <<sse, watch, now, alerts, cfgFile, cfgChanged, cfgWrites, cfgVars, deauthVars,
                   rogueVars, pc, beacons, clock, last_flush, arrived, deauth_seen,
                   hopVars>>

CaptureConfigs == {Config("home", {}, {}, {}, 4, 2, 2, 4, 3, 150, 4)}

\* one frame of each kind handle() tells apart; "ether" has no Dot11 layer
CapturePackets ==
    {Packet(TRUE, "beacon", "home", "ff:ff", "aa:01", "aa:01", TRUE, <<6>>, TRUE, 2437, <<-50>>),
     Packet(TRUE, "deauth", None, "cc:03", "aa:01", "aa:01", FALSE, <<>>, TRUE, 2437, <<-50>>),
     Packet(TRUE, "disas", None, "cc:03", "aa:01", "aa:01", FALSE, <<>>, TRUE, 2437, <<-50>>),
     Packet(TRUE, "other", None, "ff:ff", "cc:03", "ff:ff", FALSE, <<>>, TRUE, 2437, <<-50>>),
     Packet(FALSE, "other", None, None, None, None, FALSE, <<>>, FALSE, 0, Null)}

HandleCapture == Handle(CapturePackets, MaxFrames)

InitCapture == Init(CaptureConfigs)
NextCapture == HandleCapture \/ Wait \/ Exit
SpecCapture == InitCapture /\ [][NextCapture]_vars

\* the arrival numbers of the beacon, deauth and disassoc frames handed to
\* the worker so far, in arrival order
IsMgmt3(n) == arrived[n].dot11 /\ arrived[n].layer \in {"beacon", "deauth", "disas"}
AcceptedFrames == SelectSeq([n \in 1..Len(arrived) |-> n], IsMgmt3)

RowsOf(n) == {i \in DOMAIN events : events[i].n = n}
Buffered(n) == \E i \in DOMAIN buf : buf[i].n = n

\* the Event type the spec gives a frame kind
TypeOfLayer(layer) ==
    CASE layer = "beacon" -> "mgmt.beacon"
      [] layer = "deauth" -> "mgmt.deauth"
      [] layer = "disas"  -> "mgmt.disassoc"

\* C12: every beacon, deauth or disassoc frame handed to the worker has at
\* most one row and, once it is no longer in the buffer, exactly one row, of
\* its own type, whether or not a flush failed and was retried in between; a
\* frame of any other kind has no row, is never buffered, and its handling
\* raises no error.
C12_ExactlyOneEvent ==
    /\ \A k \in DOMAIN AcceptedFrames :
         LET n == AcceptedFrames[k]
         IN  /\ Cardinality(RowsOf(n)) <= 1
             /\ (Buffered(n) <=> RowsOf(n) = {})
             /\ \A i \in RowsOf(n) : events[i].type = TypeOfLayer(arrived[n].layer)
    /\ \A n \in DOMAIN arrived :
         ~IsMgmt3(n) =>
            /\ RowsOf(n) = {}
            /\ ~Buffered(n)
            /\ \A k \in DOMAIN logs : logs[k].level = "warn" => logs[k].n # n
    /\ \A i \in DOMAIN events : events[i].n \in DOMAIN arrived
    /\ \A i, j \in DOMAIN buf : buf[i].n = buf[j].n => i = j

\* the flush of a disassoc frame raised, a frame that is not persisted was
\* handled, and the retry on the next beacon committed both events in one
\* batch: the buffer is empty and each of the two frames has its row
C12_Witness ==
    /\ worker = "running"
    /\ buf = <<>>
    /\ Len(arrived) = 3
    /\ arrived[1].layer = "disas"
    /\ ~Persisted(arrived[2])
    /\ arrived[3].layer = "beacon"
    /\ \E k \in DOMAIN logs : logs[k].level = "warn" /\ logs[k].n = 1
    /\ Len(events) = 2
    /\ events[1].batch = events[2].batch


\* no flush has raised since the last successful one: every buffered event
\* was appended less than 800 ms after that flush, below the batch size
NoFlushFailed ==
    \A i \in DOMAIN buf :
        buf[i].ts - last_flush < FlushIntervalMs /\ i < FlushBatch

\* C15 as stated, granted that no flush has failed: while the worker runs, a
\* non-empty buffer is never left unflushed for more than 800 ms after the
\* last flush, whether or not a further frame arrives, and the buffer holds
\* fewer events than the batch size after a frame has been handled.
C15_FlushedInTime ==
    worker = "running" /\ NoFlushFailed =>
        /\ (buf # <<>> => clock - last_flush <= FlushIntervalMs)
        /\ Len(buf) < FlushBatch

\* C16 as stated: once the worker has ended, every beacon, deauth or disassoc
\* frame it was handed has its event in the store.
C16_DrainedOnExit ==
    worker # "running" =>
        \A k \in DOMAIN AcceptedFrames : RowsOf(AcceptedFrames[k]) # {}

\* a log entry that records the drop of the event of frame n
DropLogged(n) ==
    \E k \in DOMAIN logs : logs[k].message = "event dropped" /\ logs[k].n = n

\* C18 as stated, shutdown by SIGTERM left aside: at any time the event of
\* every accepted frame is in the buffer of the running worker, in the
\* store, or covered by a log entry that records its drop.
C18_NoSilentDrop ==
    worker # "killed" =>
        \A k \in DOMAIN AcceptedFrames :
            \/ (worker = "running" /\ Buffered(AcceptedFrames[k]))
            \/ RowsOf(AcceptedFrames[k]) # {}
            \/ DropLogged(AcceptedFrames[k])

----------------------------------------------------------------------------
(* Channel and band of an event: one beacon with any DS Parameter Set and    *)
(* any radiotap frequency around the edges of the three ranges               *)

ChanFreqs ==
    {0, 2407, 2411, 2412, 2414, 2415, 2437, 2484, 2485, 4999, 5000, 5001, 5002, 5003,
     5180, 5900, 5901, 5954, 5955, 5957, 5958, 5960, 7115, 7116}

ChanPackets ==
    {Packet(TRUE, "beacon", "home", "ff:ff", "aa:01", "aa:01", FALSE, <<>>, FALSE, 0, <<-50>>)}
    \cup {Packet(TRUE, "beacon", "home", "ff:ff", "aa:01", "aa:01", FALSE, <<>>, TRUE, f, <<-50>>) :
            f \in ChanFreqs}
    \cup {Packet(TRUE, "beacon", "home", "ff:ff", "aa:01", "aa:01", TRUE, info, FALSE, 0, <<-50>>) :
            info \in {<<>>} \cup {<<b>> : b \in 0..MaxDs}}
    \cup {Packet(TRUE, "beacon", "home", "ff:ff", "aa:01", "aa:01", TRUE, info, TRUE, f, <<-50>>) :
            info \in {<<>>} \cup {<<b>> : b \in 0..MaxDs}, f \in ChanFreqs}

HandleChan == arrived = <<>> /\ Handle(ChanPackets, MaxFrames)

InitChan == Init(CaptureConfigs)
NextChan == HandleChan
SpecChan == InitChan /\ [][NextChan]_vars

WellFormedChanBand(e) ==
    /\ e.band \in {"2.4", "5", "6", "?"}
    /\ e.chan \in Nat
    /\ (e.chan = 0 => e.band = "?")

\* C13 as stated: every Event built by the capture path has a band among
\* "2.4", "5", "6", "?" and a non-negative integer chan, and chan = 0 only
\* together with band "?", whatever the DS Parameter Set and the radiotap
\* frequency of its frame.
C13_ChanBandWellFormed ==
    /\ \A i \in DOMAIN events : WellFormedChanBand(events[i])
    /\ \A i \in DOMAIN buf : WellFormedChanBand(buf[i])

\* the integer nearest to x / 5 (x >= 0 an integer: there is no tie)
NearestFifth(x) == CHOOSE c \in 0..(x \div 5 + 1) : 5 * c - 2 <= x /\ x <= 5 * c + 2

\* the frame carries a DS Parameter Set element with a channel byte
HasDsChannel(p) == p.has_ds /\ p.ds_info # <<>>

\* channel and band by the radiotap frequency of the frame
ByRadiotap(e, p) ==
    IF p.has_freq /\ 2412 <= p.freq /\ p.freq <= 2484
    THEN e.band = "2.4" /\ e.chan = NearestFifth(p.freq - 2407)
    ELSE IF p.has_freq /\ 5000 <= p.freq /\ p.freq <= 5900
    THEN e.band = "5" /\ e.chan = NearestFifth(p.freq - 5000)
    ELSE IF p.has_freq /\ 5955 <= p.freq /\ p.freq <= 7115
    THEN e.band = "6" /\ e.chan = NearestFifth(p.freq - 5955) + 1
    ELSE e.band = "?" /\ e.chan = 0

\* C14 as stated, for an event e built from frame p: the channel is the DS
\* channel when the element is there, else derived from the radiotap
\* frequency; every DS-derived channel <= 14 has band 2.4.
ChannelAsStated(e, p) ==
    IF HasDsChannel(p)
    THEN e.chan = p.ds_info[1] /\ (e.chan <= 14 => e.band = "2.4")
    ELSE ByRadiotap(e, p)

C14_DsUpTo14Is24 ==
    /\ \A i \in DOMAIN events : ChannelAsStated(events[i], arrived[events[i].n])
    /\ \A i \in DOMAIN buf : ChannelAsStated(buf[i], arrived[buf[i].n])

\* C14 amended, for an event e built from frame p: a DS channel from 1 to 14
\* has band 2.4, from 36 to 196 band 5, any other up to 233 band 6, and a DS
\* channel of 0 or above 233 has band "?".
ChannelAmended(e, p) ==
    IF HasDsChannel(p)
    THEN /\ e.chan = p.ds_info[1]
         /\ (1 <= e.chan /\ e.chan <= 14 => e.band = "2.4")
         /\ (36 <= e.chan /\ e.chan <= 196 => e.band = "5")
         /\ (15 <= e.chan /\ e.chan <= 35 => e.band = "6")
         /\ (197 <= e.chan /\ e.chan <= 233 => e.band = "6")
         /\ (e.chan = 0 \/ e.chan > 233 => e.band = "?")
    ELSE ByRadiotap(e, p)

\* C14 amended: the event's channel is the first byte of the DS Parameter
\* Set when the frame has that element with at least one byte, and only
\* otherwise comes from the radiotap frequency (by the three ranges, chan 0
\* and band "?" outside them or without a frequency); a DS-derived channel
\* from 1 to 14 is given band 2.4, from 36 to 196 band 5, any other up to 233
\* band 6, and a DS channel of 0 or above 233 band "?".
C14_DsThenRadiotap ==
    /\ \A i \in DOMAIN events : ChannelAmended(events[i], arrived[events[i].n])
    /\ \A i \in DOMAIN buf : ChannelAmended(buf[i], arrived[buf[i].n])

\* an event was built from a frame whose DS Parameter Set says channel 0 and
\* whose radiotap frequency is that of channel 6: chan 0, band "?"
C14_Witness ==
    /\ Len(arrived) = 1
    /\ arrived[1].has_ds /\ arrived[1].ds_info = <<0>>
    /\ arrived[1].has_freq /\ arrived[1].freq = 2437
    /\ Len(events) = 1
    /\ events[1].chan = 0
    /\ events[1].band = "?"

----------------------------------------------------------------------------
(* Visibility of committed batches: the capture worker commits while the
   sensor loop runs.  One tick reads the store twice, in detect_deauths and
   in the beacon query, and a batch may be committed between the two reads
   (each statement sees what is committed when it runs; when an alert fires
   the loop itself commits in between). *)

\* what a read of the store does: it returns rows, or it raises (for the
\* deauth count: the raw SQL and the ORM fallback both raise)
ReadOutcomes == {"ok", "raise"}

\* the first half of the loop body at wall-clock time t, `unit` clock units
\* per second: hot reload, detect_deauths and the deauth alert.  deauth_seen
\* is the set of ids the count query read.  Nothing in loop() catches an
\* exception of the read: it leaves the `with session` block and the while
\* loop, and loop() ends ("crashed").
TickDetect(t, unit, outcomes) ==
    /\ pc = "tick"
    /\ now < StartTime + MaxTicks * TickSec
    /\ \E read \in outcomes :
       LET c        == cfgFile
           new_win  == IF cfgChanged THEN OrElse(c.pwr_window, pwr_win) ELSE pwr_win
           r        == detect_deauths(events, t, w' * unit, per_src', glob')
           sig      == Sig(r.total, r.offenders)
           too_soon == (t - last_fire_ts) < cooldown' * unit
           same_as_before == (sig = last_sig)
           fire     == ShouldFire(r.triggered, too_soon, same_as_before)
       IN  /\ w' = IF cfgChanged THEN c.window_sec ELSE w
           /\ per_src' = IF cfgChanged THEN c.per_src_limit ELSE per_src
           /\ glob' = IF cfgChanged THEN c.global_limit ELSE glob
           /\ cooldown' = IF cfgChanged THEN c.cooldown_sec ELSE cooldown
           /\ defense' = IF cfgChanged THEN DefenseOf(c) ELSE defense
           /\ pwr_win' = new_win
           /\ pwr_var_threshold' =
                IF cfgChanged THEN OrElse(c.pwr_var_threshold, pwr_var_threshold)
                ELSE pwr_var_threshold
           /\ pwr_cooldown' =
                IF cfgChanged THEN OrElse(c.pwr_cooldown_sec, pwr_cooldown)
                ELSE pwr_cooldown
           /\ pwr_windows' =
                IF new_win # pwr_win THEN ResizeWindows(pwr_windows, new_win)
                ELSE pwr_windows
           /\ pwr_caps' =
                IF new_win # pwr_win THEN ResizeCaps(pwr_caps, new_win) ELSE pwr_caps
           /\ cfgChanged' = FALSE
           /\ IF read = "raise"
              THEN /\ pc' = "crashed"
                   /\ UNCHANGED <<deauth_seen, alerts, last_fire_ts, last_sig>>
              ELSE /\ pc' = "query"
                   /\ deauth_seen' = DeauthRows(events, t - w' * unit)
                   /\ alerts' =
                        IF fire
                        THEN Append(alerts, DeauthAlert(t, r.total, r.offenders, glob'))
                        ELSE alerts
                   /\ last_fire_ts' = IF fire THEN t ELSE last_fire_ts
                   /\ last_sig' = IF fire THEN sig ELSE last_sig
    /\ UNCHANGED <<sse, watch, now, events, cfgFile, cfgWrites, rsn_baseline, last_pwr_alert_ts,
                   tracked_bssids, seen_beacon_ids, seen_beacon_set, beacons, clock,
                   buf, last_flush, arrived, worker, logs, hopVars>>

\* the beacon query of the tick, at wall-clock time t
TickQuery(t, unit, outcomes) ==
    /\ pc = "query"
    /\ \E read \in outcomes :
         IF read = "raise"
         THEN pc' = "crashed" /\ UNCHANGED beacons
         ELSE /\ beacons' = BeaconQuery(events, t - w * unit, defense)
              /\ pc' = "beacons"
    /\ UNCHANGED <<now, events, alerts, cfgFile, cfgChanged, cfgWrites, cfgVars,
                   deauthVars, rogueVars, captureVars>>

VisibleConfigs == {Config("home", {}, {}, {}, 4, 2, 2, 4, 3, 150, 4)}

VisiblePackets ==
    { Packet(TRUE, "beacon", "home", "ff:ff", "aa:01", "aa:01", TRUE, <<6>>, FALSE, 0, <<-50>>),
      Packet(TRUE, "deauth", None, "cc:03", "aa:01", "aa:01", FALSE, <<>>, TRUE, 2437, <<-50>>) }

HandleVisible == Handle(VisiblePackets, MaxFrames)
TickDetectVisible == TickDetect(clock, MsPerSec, {"ok"})
TickQueryVisible == TickQuery(clock, MsPerSec, {"ok"})

InitVisible == Init(VisibleConfigs)
NextVisible ==
    HandleVisible \/ Wait \/ TickDetectVisible \/ TickQueryVisible \/ EvalBeacon \/ Sleep
SpecVisible == InitVisible /\ [][NextVisible]_vars

\* the ids of the rows of batch b
BatchOf(b) == {i \in DOMAIN events : events[i].batch = b}
Batches == {events[i].batch : i \in DOMAIN events}
DeauthIds == {i \in DOMAIN events : events[i].type = "mgmt.deauth"}
BeaconIds == {i \in DOMAIN events : events[i].type = "mgmt.beacon"}

\* the store's ids follow the order in which the frames arrived
IdOrderIsArrivalOrder ==
    \A i, j \in DOMAIN events : i < j => events[i].n < events[j].n

\* a read that returned the ids `seen` out of the ids `of` took every batch
\* whole or not at all
WholeBatches(seen, of) ==
    \A b \in Batches :
        BatchOf(b) \cap of \cap seen = {} \/ BatchOf(b) \cap of \subseteq seen

\* the step that completes the two reads of one tick
TickHasRead == pc = "query" /\ pc' = "beacons"

----------------------------------------------------------------------------
(* Store reads that fail during a tick *)

FaultConfigs == {Config("home", {}, {}, {}, 4, 2, 1, 4, 3, 150, 4)}

FaultFrames ==
    {Frame("mgmt.deauth", "aa:01", "aa:01", None, 6, "2.4", <<-50>>, Null, Null),
     Frame("mgmt.beacon", "aa:01", "aa:01", "home", 6, "2.4", <<-50>>, Null, Null),
     Frame("mgmt.beacon", "de:01", "de:01", "home", 6, "2.4", <<-80>>, Null, Null)}

IngestFault == Ingest(FaultFrames, MaxEvents)
TickDetectFault == TickDetect(now, 1, ReadOutcomes)
TickQueryFault == TickQuery(now, 1, ReadOutcomes)

InitFault == Init(FaultConfigs)
NextFault == IngestFault \/ TickDetectFault \/ TickQueryFault \/ EvalBeacon \/ Sleep
SpecFault == InitFault /\ [][NextFault]_vars

\* C19 as stated: a read of the store that fails ends the tick and not the
\* loop: the failed tick appends no alert, and the loop is there to run the
\* next tick.
C19_FailedReadSkipsTick ==
    [][ (pc \in {"tick", "query"} /\ pc' \notin {"query", "beacons"})
            => (pc' = "tick" /\ UNCHANGED alerts) ]_vars

----------------------------------------------------------------------------
(* Hot reload while the loop runs: the file may be rewritten at any point
   of a tick, also during the beacon pass *)

\* mutant: the loop reads the limit from the file whenever it is written
WriteConfigLive(configs) ==
    /\ ~cfgChanged
    /\ cfgWrites < MaxWrites
    /\ \E c \in configs \ {cfgFile} : cfgFile' = c /\ glob' = c.global_limit
    /\ cfgChanged' = TRUE
    /\ cfgWrites' = cfgWrites + 1
    /\ UNCHANGED <<now, events, alerts, w, per_src, cooldown, pwr_win,
                   pwr_var_threshold, pwr_cooldown, defense, deauthVars, rogueVars,
                   pc, beacons, captureVars>>

\* the API rewrites the config file at any point of the loop: the mtime
\* moves past cfg_mtime, the loop's variables are untouched
WriteConfigAnytime(configs) ==
    /\ ~cfgChanged
    /\ cfgWrites < MaxWrites
    /\ \E c \in configs \ {cfgFile} : cfgFile' = c
    /\ cfgChanged' = TRUE
    /\ cfgWrites' = cfgWrites + 1
    /\ UNCHANGED <<now, events, alerts, cfgVars, deauthVars, rogueVars, pc, beacons,
                   captureVars>>

ReloadConfigs ==
    {Config("home", {}, {}, {}, 4, 2, gl, 4, 3, 150, 4) : gl \in {1, 2, 3}}

ReloadFrames ==
    {Frame("mgmt.deauth", "aa:01", "aa:01", None, 6, "2.4", <<-50>>, Null, Null),
     Frame("mgmt.beacon", "aa:01", "aa:01", "home", 6, "2.4", <<-50>>, Null, Null)}

IngestReload == Ingest(ReloadFrames, MaxEvents)
WriteConfigReload == WriteConfigAnytime(ReloadConfigs)

InitReload == Init(ReloadConfigs)
NextReload == IngestReload \/ WriteConfigReload \/ TickBegin \/ EvalBeacon \/ Sleep
SpecReload == InitReload /\ [][NextReload]_vars

\* the step that runs the config check, the deauth detection and the beacon
\* query of a tick
TickStarts == pc = "tick" /\ pc' = "beacons"

\* the deauth events of the window of this tick
WindowTotal == Cardinality(DeauthRows(events, now - cfgFile.window_sec))

DeauthAlertAppended ==
    /\ Len(alerts') = Len(alerts) + 1
    /\ alerts'[Len(alerts')].kind = "deauth_flood"

----------------------------------------------------------------------------
(* Hot reload of a file that cannot be applied.  The reload block assigns
   the loop's variables one after the other inside one try: an exception
   leaves the block at the statement that raised, with the assignments
   before it done. *)

\* what is wrong with the file on disk: nothing; it cannot be read or
\* decoded (os.stat or load_config raises); thresholds.deauth is not a
\* mapping (.get raises); thresholds.rogue.pwr_window is not a number
\* (int() raises)
Faults == {"none", "unreadable", "bad_deauth", "bad_pwr_window"}

FileWith(c, fault) == [fault |-> fault] @@ c
Fault(file) == IF "fault" \in DOMAIN file THEN file.fault ELSE "none"

\* the loop's settings as a record
Settings ==
    [w |-> w, per_src |-> per_src, glob |-> glob, cooldown |-> cooldown,
     defense |-> defense, pwr_win |-> pwr_win,
     pwr_var_threshold |-> pwr_var_threshold, pwr_cooldown |-> pwr_cooldown]

\* cfg.get("defense", {}) of a document without a defense section
NoDefense ==
    [ssid |-> "", allowed_bssids |-> {}, allowed_channels |-> {}, allowed_bands |-> {}]

\* the settings after the reload block has run on `file`, from settings cur
\* An "empty" file is one that p.write_text has opened, and so truncated, and
\* not written yet: load_config returns {} for it, cfg.get("defense", {}) is
\* {} and every threshold keeps its value
HotReload(file, cur) ==
    LET f  == Fault(file)
        s1 == IF f = "unreadable" THEN cur
              ELSE IF f = "empty" THEN [cur EXCEPT !.defense = NoDefense]
              ELSE [cur EXCEPT !.defense = DefenseOf(file)]
        s2 == IF f \in {"unreadable", "bad_deauth", "empty"} THEN s1
              ELSE [s1 EXCEPT !.w = file.window_sec,
                              !.per_src = file.per_src_limit,
                              !.glob = file.global_limit,
                              !.cooldown = file.cooldown_sec]
        s3 == IF f # "none" THEN s2
              ELSE [s2 EXCEPT !.pwr_win = OrElse(file.pwr_window, cur.pwr_win),
                              !.pwr_var_threshold =
                                  OrElse(file.pwr_var_threshold, cur.pwr_var_threshold),
                              !.pwr_cooldown =
                                  OrElse(file.pwr_cooldown_sec, cur.pwr_cooldown)]
    IN  s3

\* top of the loop body when the file on disk may be one that cannot be
\* applied: hot reload (with its error log), deauth detection, beacon query
TickBeginReload ==
    /\ pc = "tick"
    /\ now < StartTime + MaxTicks * TickSec
    /\ \E written \in BOOLEAN :
       LET new      == IF cfgChanged THEN HotReload(cfgFile, Settings) ELSE Settings
           failed   == cfgChanged /\ Fault(cfgFile) \notin {"none", "empty"}
           r        == detect_deauths(events, now, new.w, new.per_src, new.glob)
           sig      == Sig(r.total, r.offenders)
           too_soon == (now - last_fire_ts) < new.cooldown
           same_as_before == (sig = last_sig)
           fire     == ShouldFire(r.triggered, too_soon, same_as_before)
       IN  /\ w' = new.w
           /\ per_src' = new.per_src
           /\ glob' = new.glob
           /\ cooldown' = new.cooldown
           /\ defense' = new.defense
           /\ pwr_win' = new.pwr_win
           /\ pwr_var_threshold' = new.pwr_var_threshold
           /\ pwr_cooldown' = new.pwr_cooldown
           /\ pwr_windows' =
                IF new.pwr_win # pwr_win THEN ResizeWindows(pwr_windows, new.pwr_win)
                ELSE pwr_windows
           /\ pwr_caps' =
                IF new.pwr_win # pwr_win THEN ResizeCaps(pwr_caps, new.pwr_win)
                ELSE pwr_caps
           /\ cfgChanged' = FALSE
           /\ logs' =
                IF failed
                THEN LogDb(logs, "error", "sensor config reload failed", 0, written)
                ELSE logs
           /\ alerts' =
                IF fire
                THEN Append(alerts, DeauthAlert(now, r.total, r.offenders, new.glob))
                ELSE alerts
           /\ last_fire_ts' = IF fire THEN now ELSE last_fire_ts
           /\ last_sig' = IF fire THEN sig ELSE last_sig
           /\ beacons' = BeaconQuery(events, now - new.w, new.defense)
    /\ pc' = "beacons"
    /\ UNCHANGED <<sse, watch, now, events, cfgFile, cfgWrites, rsn_baseline, last_pwr_alert_ts,
                   tracked_bssids, seen_beacon_ids, seen_beacon_set, clock, buf,
                   last_flush, arrived, worker, deauth_seen, hopVars>>

BadFileConfigs ==
    {Config("home", {}, {}, {}, 4, 2, 2, 4, 3, 150, 4),
     Config("cafe", {"aa:01"}, {}, {}, 6, 1, 1, 6, 5, 100, 6)}

\* the file the process started from is a good one; a rewrite may be bad
GoodFiles == {FileWith(c, "none") : c \in BadFileConfigs}
WrittenFiles == {FileWith(c, f) : c \in BadFileConfigs, f \in Faults}

BadFileFrames ==
    {Frame("mgmt.deauth", "aa:01", "aa:01", None, 6, "2.4", <<-50>>, Null, Null),
     Frame("mgmt.beacon", "aa:01", "aa:01", "home", 6, "2.4", <<-50>>, Null, Null)}

IngestBadFile == Ingest(BadFileFrames, MaxEvents)
WriteConfigBadFile == WriteConfig(WrittenFiles)

InitBadFile == Init(GoodFiles)
NextBadFile ==
    IngestBadFile \/ WriteConfigBadFile \/ TickBeginReload \/ EvalBeacon \/ Sleep
SpecBadFile == InitBadFile /\ [][NextBadFile]_vars

\* C21 as stated (the log entry left aside): a reload that fails leaves
\* every runtime setting at its value before the reload.
C21_FailedReloadKeepsAll ==
    [][ (pc = "tick" /\ pc' = "beacons" /\ cfgChanged /\ Fault(cfgFile) # "none")
            => UNCHANGED cfgVars ]_vars

----------------------------------------------------------------------------
(* Hot reload of pwr_window: the existing deques are rebuilt with the new
   maxlen *)

ResizeConfigs ==
    {Config("home", {}, {}, {}, 4, 2, 2, 4, pw, 1000, 4) : pw \in {2, 4, 5}}

ResizeFrames ==
    {Frame("mgmt.beacon", "aa:01", "aa:01", "home", 6, "2.4", <<-40>>, Null, Null),
     Frame("mgmt.beacon", "aa:01", "aa:01", "home", 6, "2.4", <<-80>>, Null, Null),
     Frame("mgmt.beacon", "bb:02", "bb:02", "home", 6, "2.4", <<-60>>, Null, Null)}

IngestResize == Ingest(ResizeFrames, MaxSamples)
WriteConfigResize == WriteConfig(ResizeConfigs)

InitResize == Init(ResizeConfigs)
NextResize == IngestResize \/ WriteConfigResize \/ TickBegin \/ EvalBeacon \/ Sleep
SpecResize == InitResize /\ [][NextResize]_vars

\* max(3, W)
CapacityFor(W) == IF W > 3 THEN W ELSE 3

\* new holds the most recent n samples of old, in their order
MostRecent(new, old, n) ==
    /\ Len(new) = (IF Len(old) <= n THEN Len(old) ELSE n)
    /\ \A i \in 1..Len(new) : new[i] = old[Len(old) - Len(new) + i]

\* C22: the tick whose reload changes pwr_window to W leaves every existing
\* deque with maxlen max(3, W) and with its most recent max(3, W) samples in
\* their order (all of them if there are no more), creates and drops no
\* deque, and changes no RSN baseline, tracked BSSID, remembered id or
\* cooldown timestamp; a deque created in any later step has the maxlen
\* max(3, pwr_window) of that time.
C22_ResizeKeepsRecent ==
    [][ /\ (TickStarts /\ cfgChanged /\ cfgFile.pwr_window # pwr_win =>
              /\ pwr_win' = cfgFile.pwr_window
              /\ DOMAIN pwr_windows' = DOMAIN pwr_windows
              /\ \A b \in DOMAIN pwr_windows :
                   /\ pwr_caps'[b] = CapacityFor(cfgFile.pwr_window)
                   /\ MostRecent(pwr_windows'[b], pwr_windows[b],
                                 CapacityFor(cfgFile.pwr_window))
              /\ UNCHANGED <<rsn_baseline, tracked_bssids, seen_beacon_ids,
                             seen_beacon_set, last_pwr_alert_ts>>)
        /\ (\A b \in DOMAIN pwr_windows' \ DOMAIN pwr_windows :
              pwr_caps'[b] = CapacityFor(pwr_win)) ]_vars

\* the first tick filled the deque of aa:01 with four samples; the file was
\* rewritten with pwr_window 2 and the second tick has cut the deque to its
\* last three samples, the first one being a different value
C22_Witness ==
    /\ now = StartTime + TickSec
    /\ pc = "beacons"
    /\ Len(beacons) = 4
    /\ pwr_win = 2
    /\ Len(events) = 4
    /\ \A i \in 1..4 : events[i].bssid = "aa:01"
    /\ "aa:01" \in DOMAIN pwr_windows
    /\ events[1].rssi # events[2].rssi
    /\ pwr_caps["aa:01"] = 3
    /\ pwr_windows["aa:01"] = <<events[2].rssi[1], events[3].rssi[1], events[4].rssi[1]>>

----------------------------------------------------------------------------
(* Capture: the channel hopper, _hop_loop and _build_plan.  The dwell time
   only sets how long a pass of the loop waits and is not part of the state. *)

Default24 == [i \in 1..13 |-> i]
Fallback24 == <<1, 6, 11>>
Default5 == <<36, 40, 44, 48, 149, 153, 157, 161>>

HopCfg(enabled, mode, bands, c24, c5, c6, lock, list) ==
    [enabled |-> enabled, mode |-> mode, bands |-> bands, channels_24 |-> c24,
     channels_5 |-> c5, channels_6 |-> c6, lock_channel |-> lock,
     list_channels |-> list]

\* x or default, for lists
OrList(x, default) == IF x = <<>> THEN default ELSE x

\* mode = (hop_cfg.get('mode') or 'all'); anything else than lock | list is all
ModeOf(h) == IF h.mode \in {"lock", "list"} THEN h.mode ELSE "all"

\* bands = hop_cfg.get('bands') or ["2.4", "5"]
BandsOf(h) == IF h.bands = {} THEN {"2.4", "5"} ELSE h.bands

\* mutant: every channel number is filed under some band, none is dropped
BandForAny(ch, bands) == IF 1 <= ch /\ ch <= 14 /\ "2.4" \in bands THEN "2.4" ELSE IF 36 <= ch /\ ch <= 196 /\ "5" \in bands THEN "5" ELSE "6"

\* the band a channel number is filed under, "" when it is dropped
BandFor(ch, bands) ==
    IF 1 <= ch /\ ch <= 14 /\ "2.4" \in bands THEN "2.4"
    ELSE IF 36 <= ch /\ ch <= 196 /\ "5" \in bands THEN "5"
    ELSE IF 1 <= ch /\ ch <= 233 /\ "6" \in bands THEN "6"
    ELSE ""

\* chans before the filter: the union for 'all', replaced for lock and list
ChansOf(h) ==
    LET bands == BandsOf(h)
        c24   == IF h.channels_24 = Null
                 THEN (IF ModeOf(h) = "all" /\ "2.4" \in bands THEN Default24
                       ELSE Fallback24)
                 ELSE OrList(h.channels_24[1], Fallback24)
        all   == (IF "2.4" \in bands THEN c24 ELSE <<>>)
                 \o (IF "5" \in bands THEN OrList(h.channels_5, Default5) ELSE <<>>)
                 \o (IF "6" \in bands THEN h.channels_6 ELSE <<>>)
    IN  IF ModeOf(h) = "lock"
        THEN (IF h.lock_channel = Null THEN <<>> ELSE h.lock_channel)
        ELSE IF ModeOf(h) = "list" THEN h.list_channels
        ELSE all

\* the plan before the shuffle: (band, ch) for every channel that is kept
PlanOf(h) ==
    LET bands   == BandsOf(h)
        chans   == ChansOf(h)
        Kept(ch) == BandFor(ch, bands) # ""
        kept    == SelectSeq(chans, Kept)
    IN  [i \in 1..Len(kept) |-> [band |-> BandFor(kept[i], bands), ch |-> kept[i]]]

ChannelsOf(plan) == {plan[i].ch : i \in DOMAIN plan}

\* mutant: the key is the set of channels alone
PlanKeyChannelsOnly(h, plan) == IF plan = <<>> THEN Null ELSE <<"", ChannelsOf(plan)>>

\* key = (plan_src, frozenset(plan_channels)) if plan else None
PlanKey(h, plan) == IF plan = <<>> THEN Null ELSE <<ModeOf(h), ChannelsOf(plan)>>

Reverse(s) == [i \in 1..Len(s) |-> s[Len(s) + 1 - i]]

\* random.shuffle(plan): every order of a plan of up to MaxShuffled entries;
\* of a longer plan the order as built, its reverse and its rotation by one
Shuffles(plan) ==
    IF Len(plan) <= MaxShuffled
    THEN {[i \in 1..Len(plan) |-> plan[f[i]]] : f \in Permutations(1..Len(plan))}
    ELSE {plan, Reverse(plan), Tail(plan) \o <<Head(plan)>>}

\* _chan_to_freq(band, ch)
chan_to_freq(band, ch) ==
    IF band = "2.4" THEN 2407 + 5 * ch
    ELSE IF band = "5" THEN 5000 + 5 * ch
    ELSE IF band = "6" THEN 5955 + (ch - 1) * 5
    ELSE 0

\* the API rewrites capture.hop in the config file
WriteHop(files) ==
    /\ hopWrites < MaxHopWrites
    /\ \E h \in files \ {hopFile} : hopFile' = h
    /\ hopWrites' = hopWrites + 1
    /\ UNCHANGED <<sse, watch, now, events, alerts, cfgFile, cfgChanged, cfgWrites, cfgVars,
                   deauthVars, rogueVars, pc, beacons, clock, buf, last_flush, arrived,
                   worker, logs, deauth_seen, hopCfg, last_plan, last_plan_key, idx,
                   radio, hop_cfg, shuffles, loopVars>>

\* one pass of `while not stop_evt.is_set()` in _hop_loop: build the plan
\* from the file (from the startup config when the file cannot be read, from
\* no hop section at all when the file is read while it is empty),
\* adopt a new order when the key changed, and hop to plan[idx % len(plan)]
HopStep(reads, max) ==
    /\ worker = "running"
    /\ idx < max
    /\ \E read \in reads, written \in BOOLEAN, stepped \in BOOLEAN :
       LET h     == IF read = "ok" THEN hopFile
                    ELSE IF read = "empty" THEN NoHop
                    ELSE hopCfg
           built == IF h.enabled THEN PlanOf(h) ELSE <<>>
           key   == PlanKey(h, built)
           adopt == built # <<>> /\ key # last_plan_key
       IN  /\ hop_cfg' = h
           /\ IF built = <<>>
              THEN \* disabled or no plan: stop_evt.wait(1.0)
                   UNCHANGED <<logs, last_plan, last_plan_key, idx, radio, shuffles>>
              ELSE
                \E order \in (IF adopt THEN Shuffles(built) ELSE {last_plan}) :
                LET hop  == order[(idx % Len(order)) + 1]
                    freq == chan_to_freq(hop.band, hop.ch)
                    log1 == IF adopt
                            THEN LogDb(logs, "info", "hop plan", 0, written)
                            ELSE logs
                IN  /\ last_plan' = order
                    /\ last_plan_key' = key
                    /\ shuffles' = IF adopt THEN shuffles + 1 ELSE shuffles
                    /\ idx' = idx + 1
                    /\ radio' = [band |-> hop.band, ch |-> hop.ch, freq |-> freq]
                    /\ logs' = IF (idx + 1) % Len(order) = 1
                               THEN LogDb(log1, "info", "hop step", 0, stepped)
                               ELSE log1
    /\ UNCHANGED <<sse, watch, now, events, alerts, cfgFile, cfgChanged, cfgWrites, cfgVars,
                   deauthVars, rogueVars, pc, beacons, clock, buf, last_flush, arrived,
                   worker, deauth_seen, hopFile, hopCfg, hopWrites, loopVars>>

HopFiles ==
    {HopCfg(TRUE, "list", {"2.4"}, Null, <<>>, <<>>, Null, <<1, 6, 11>>),
     HopCfg(TRUE, "all", {"2.4"}, <<<<1, 6, 11>>>>, <<>>, <<>>, Null, <<>>),
     HopCfg(FALSE, "list", {"2.4"}, Null, <<>>, <<>>, Null, <<1, 6, 11>>),
     HopCfg(TRUE, "list", {"2.4"}, Null, <<>>, <<>>, Null, <<6, 14>>)}

WriteHopHop == WriteHop(HopFiles)
HopStepHop == HopStep(ReadOutcomes, MaxHops)

InitHop == InitWith(CaptureConfigs, HopFiles)
NextHop == WriteHopHop \/ HopStepHop
SpecHop == InitHop /\ [][NextHop]_vars

\* ---- C23: when the hopper reshuffles ----

\* A step of the hopper that went on to set the radio.
HopTaken == idx' = idx + 1

\* This step called random.shuffle.
Reshuffled == shuffles' = shuffles + 1

\* This step added a 'hop plan' entry to the log.
NewHopPlanLog ==
    \E k \in (Len(logs) + 1)..Len(logs') : logs'[k].message = "hop plan"

\* The channels of the plan this step built from the configuration it read.
BuiltChannels == ChannelsOf(PlanOf(hop_cfg'))

CentreFreq(band, ch) ==
    CASE band = "2.4" -> IF ch = 14 THEN 2484 ELSE 2407 + 5 * ch
      [] band = "5"   -> 5000 + 5 * ch
      [] band = "6"   -> 5950 + 5 * ch
      [] OTHER        -> 0

\* C24: each hop step tunes the radio to the plan entry that follows the one of
\* the step before, in round-robin order: the entry at position idx mod n of the
\* plan, at the centre frequency of that entry's channel.
C24_RoundRobin ==
    [][ HopTaken
            => LET n     == Len(last_plan')
                   entry == last_plan'[(idx % n) + 1]
               IN  /\ radio'.band = entry.band
                   /\ radio'.ch = entry.ch
                   /\ radio'.freq = CentreFreq(entry.band, entry.ch) ]_vars

\* ---- C25: the channels of the plan ----

\* capture.hop sections over every mode, band selection and channel list,
\* with channel numbers inside and outside the ranges of the bands
PlanFiles ==
    {HopCfg(en, mode, bands, c24, c5, c6, lock, list) :
        en \in {TRUE},
        mode \in {"lock", "list", "all", "smart"},
        bands \in {{}, {"2.4"}, {"5"}, {"6"}, {"2.4", "5"}, {"2.4", "5", "6"}},
        c24 \in {Null, <<<<>>>>, <<<<1, 6, 11>>>>, <<<<3, 14, 40>>>>},
        c5 \in {<<>>, <<36, 200>>},
        c6 \in {<<>>, <<1, 5, 233, 240>>},
        lock \in {Null, <<6>>, <<36>>, <<0>>, <<200>>},
        list \in {<<>>, <<1, 6, 11>>, <<11, 36, 0, 250>>}}
    \cup {HopCfg(FALSE, "list", {"2.4"}, Null, <<>>, <<>>, Null, <<1, 6, 11>>)}

HopStepPlan == HopStep({"ok"}, MaxPlanHops)

InitPlan == InitWith(CaptureConfigs, PlanFiles)
NextPlan == HopStepPlan
SpecPlan == InitPlan /\ [][NextPlan]_vars

SetOf(seq) == {seq[i] : i \in DOMAIN seq}

\* The channels of one band as the claim states them: the configured override,
\* otherwise the defaults.
StatedBand(h, band) ==
    CASE band = "2.4" -> IF h.channels_24 = Null \/ h.channels_24 = <<<<>>>>
                         THEN 1..13 ELSE SetOf(h.channels_24[1])
      [] band = "5"   -> IF h.channels_5 = <<>> THEN {36, 40, 44, 48, 149, 153, 157, 161}
                         ELSE SetOf(h.channels_5)
      [] band = "6"   -> SetOf(h.channels_6)

\* The channels of the plan as the claim states them.
StatedChannels(h) ==
    CASE h.mode = "lock" -> IF h.lock_channel = Null THEN {} ELSE {h.lock_channel[1]}
      [] h.mode = "list" -> SetOf(h.list_channels)
      [] OTHER           -> UNION {StatedBand(h, b) : b \in BandsOf(h)}

\* A channel number that one of the enabled bands has.
Tunable(ch, bands) ==
    \/ ch \in 1..14 /\ "2.4" \in bands
    \/ ch \in 36..196 /\ "5" \in bands
    \/ ch \in 1..233 /\ "6" \in bands

\* The channels of one band, with 1, 6 and 11 for an empty 2.4 GHz override.
AmendedBand(h, band) ==
    IF band = "2.4" /\ h.channels_24 = <<<<>>>> THEN {1, 6, 11} ELSE StatedBand(h, band)

\* The channels of the plan: the stated ones that an enabled band has.
AmendedChannels(h) ==
    LET all == UNION {AmendedBand(h, b) : b \in BandsOf(h)}
        of  == CASE h.mode = "lock" -> StatedChannels(h)
                 [] h.mode = "list" -> StatedChannels(h)
                 [] OTHER           -> all
    IN  {ch \in of : Tunable(ch, BandsOf(h))}

\* The hopper has built a plan from an enabled capture.hop section.
PlanBuilt == hop_cfg # Null /\ hop_cfg.enabled

\* C25 as stated: the plan's channels are {lock_channel} in lock mode, those of
\* list_channels in list mode, and in all mode the union over the enabled bands
\* of the override or defaults of each band.
C25_PlanIsStatedChannels ==
    PlanBuilt => ChannelsOf(last_plan) = StatedChannels(hop_cfg)

\* C25 amended: the plan's channels are those stated that are channel numbers
\* of an enabled band (1..14 for 2.4 GHz, 36..196 for 5 GHz, 1..233 for 6 GHz),
\* with 1, 6 and 11 for an empty 2.4 GHz override; when none is left the hopper
\* does not hop.
C25_PlanIsTunableChannels ==
    PlanBuilt =>
        /\ ChannelsOf(last_plan) = AmendedChannels(hop_cfg)
        /\ \A i \in DOMAIN last_plan : Tunable(last_plan[i].ch, {last_plan[i].band})
        /\ (AmendedChannels(hop_cfg) = {}) <=> (idx = 0)

\* The hopper built its plan from a list with two channels of the enabled bands
\* and two that no band has, and hopped.
C25_Witness ==
    /\ PlanBuilt
    /\ hop_cfg.mode = "list"
    /\ hop_cfg.list_channels = <<11, 36, 0, 250>>
    /\ hop_cfg.bands = {"2.4", "5"}
    /\ ChannelsOf(last_plan) = {11, 36}
    /\ idx = 1

-----------------------------------------------------------------------------
(* The sniff loop of run_sniffer: `while not stop_evt.is_set()`, one step for *)
(* the interface check, one for each frame sniff() hands to handle(), one    *)
(* for each way a sniff() call ends.                                         *)

Min(a, b) == IF a <= b THEN a ELSE b

\* backoff = min(backoff * 2, 5.0)
NextBackoff(b) == Min(b * 2, BackoffCap)

\* top of the loop with the interface up: sniff(...) is called
SniffBegin ==
    /\ worker = "running"
    /\ ~stop_evt
    /\ ~interrupted
    /\ ~sniffing
    /\ sniffing' = TRUE
    /\ UNCHANGED <<sse, watch, storeVars, now, events, alerts, cfgFile, cfgChanged, cfgWrites, cfgVars,
                   deauthVars, rogueVars, pc, beacons, clock, buf, last_flush, arrived,
                   worker, logs, deauth_seen, hopFile, hopCfg, hopWrites, last_plan,
                   last_plan_key, idx, radio, hop_cfg, shuffles, stop, signal,
                   interrupted, stop_evt, hopper, backoff, waited, mark, streak, failures>>

\* top of the loop with the interface down: a warning is logged and the loop
\* waits a second, whatever the backoff
IfaceDown(max) ==
    /\ worker = "running"
    /\ ~stop_evt
    /\ ~interrupted
    /\ ~sniffing
    /\ Len(logs) < max
    /\ \E written \in BOOLEAN :
         logs' = LogDb(logs, "warn", "sniffer: interface is DOWN", 0, written)
    /\ waited' = <<IfaceWait>>
    /\ UNCHANGED <<sse, watch, storeVars, now, events, alerts, cfgFile, cfgChanged, cfgWrites, cfgVars,
                   deauthVars, rogueVars, pc, beacons, clock, buf, last_flush, arrived,
                   worker, deauth_seen, hopFile, hopCfg, hopWrites, last_plan,
                   last_plan_key, idx, radio, hop_cfg, shuffles, stop, signal,
                   interrupted, stop_evt, hopper, sniffing, backoff, mark, streak,
                   failures>>

\* handle() returned: the frame was not one to persist, or it was buffered, or
\* the flush it set off was committed
HandleReturned ==
    buf' = buf \/ buf' = <<>> \/ ~ShouldFlush(Len(buf'), clock, last_flush)

\* a frame arrives during a sniff() call and handle() returns
HandleInSniff(packets, max) ==
    /\ sniffing
    /\ Handle(packets, max)
    /\ HandleReturned

\* sniff() returns: its timeout of 5 s has passed, or it was interrupted by a
\* KeyboardInterrupt that it caught itself
SniffReturn ==
    /\ worker = "running"
    /\ sniffing
    /\ sniffing' = FALSE
    /\ backoff' = BackoffStart
    /\ mark' = Len(arrived)
    /\ streak' = 0
    /\ UNCHANGED <<sse, watch, storeVars, now, events, alerts, cfgFile, cfgChanged, cfgWrites, cfgVars,
                   deauthVars, rogueVars, pc, beacons, clock, buf, last_flush, arrived,
                   worker, logs, deauth_seen, hopFile, hopCfg, hopWrites, last_plan,
                   last_plan_key, idx, radio, hop_cfg, shuffles, stop, signal,
                   interrupted, stop_evt, hopper, waited, failures>>

\* sniff() raises (a socket error, or an exception of handle()): the error is
\* logged, the loop waits for the backoff and doubles it
SniffRaise(max) ==
    /\ worker = "running"
    /\ sniffing
    /\ failures < max
    /\ sniffing' = FALSE
    /\ \E written \in BOOLEAN :
         logs' = LogDb(logs, "warn", "sniffer socket error", 0, written)
    /\ waited' = <<backoff>>
    /\ backoff' = NextBackoff(backoff)
    /\ mark' = Len(arrived)
    /\ streak' = IF Len(arrived) > mark THEN 1 ELSE streak + 1
    /\ failures' = failures + 1
    /\ UNCHANGED <<sse, watch, storeVars, now, events, alerts, cfgFile, cfgChanged, cfgWrites, cfgVars,
                   deauthVars, rogueVars, pc, beacons, clock, buf, last_flush, arrived,
                   worker, deauth_seen, hopFile, hopCfg, hopWrites, last_plan,
                   last_plan_key, idx, radio, hop_cfg, shuffles, stop, signal,
                   interrupted, stop_evt, hopper>>

SniffPackets ==
    {Packet(TRUE, "beacon", "home", "ff:ff", "aa:01", "aa:01", TRUE, <<6>>, TRUE, 2437, <<-50>>)}

IfaceDownSniff == IfaceDown(MaxFailures)
HandleSniff == HandleInSniff(SniffPackets, MaxSniffFrames)
SniffRaiseSniff == SniffRaise(MaxFailures)

InitSniff == Init(CaptureConfigs)
NextSniff == SniffBegin \/ IfaceDownSniff \/ HandleSniff \/ SniffReturn \/ SniffRaiseSniff
SpecSniff == InitSniff /\ [][NextSniff]_vars

\* ---- C27: the retry wait of the capture loop ----

\* A sniff() call raised and the loop waited before the next one.
CaptureFailed == failures' = failures + 1

\* min(0.5 * 2^(k-1), 5) seconds, in tenths of a second
StatedWait(k) == Min(5 * 2^(k - 1), 50)

\* C27: the wait after the k-th capture failure in a row, counted from the last
\* handled frame or the last sniff() that returned, is min(0.5 * 2^(k-1), 5)
\* seconds, between 0.5 s and 5 s.
C27_BackoffDoublesFromLastSuccess ==
    [][ CaptureFailed
            => ( /\ waited' = <<StatedWait(streak')>>
                 /\ waited'[1] >= 5
                 /\ waited'[1] <= 50 ) ]_vars

-----------------------------------------------------------------------------
(* Shutdown.  The sensor installs a handler for SIGINT and SIGTERM that sets *)
(* its stop flag (main.py:82-88).  The sniffer installs none: SIGTERM ends   *)
(* its process at once, SIGINT raises KeyboardInterrupt in its main thread.   *)
(* What a KeyboardInterrupt does inside sniff() is the capture library's     *)
(* business: either sniff() catches it and returns, or it propagates.        *)

Signals == {"SIGTERM", "SIGINT"}

\* the signal is sent to the sensor and to the sniffer
Signal(sigs) ==
    /\ signal = Null
    /\ \E sig \in sigs, caught \in BOOLEAN :
         /\ signal' = <<sig>>
         /\ stop' = TRUE
         /\ IF worker # "running"
            THEN UNCHANGED <<worker, hopper, sniffing, interrupted>>
            ELSE IF sig = "SIGTERM"
            THEN /\ worker' = "killed"
                 /\ hopper' = "exited"
                 /\ sniffing' = FALSE
                 /\ UNCHANGED interrupted
            ELSE IF sniffing /\ caught
            THEN UNCHANGED <<worker, hopper, sniffing, interrupted>>
            ELSE /\ interrupted' = TRUE
                 /\ UNCHANGED <<worker, hopper, sniffing>>
    /\ UNCHANGED <<sse, watch, storeVars, now, events, alerts, cfgFile, cfgChanged, cfgWrites, cfgVars,
                   deauthVars, rogueVars, pc, beacons, clock, buf, last_flush, arrived,
                   logs, deauth_seen, hopFile, hopCfg, hopWrites, last_plan,
                   last_plan_key, idx, radio, hop_cfg, shuffles, stop_evt, backoff,
                   waited, mark, streak, failures>>

\* `while not stop:` lets the next tick begin
TickBeginLive == ~stop /\ TickBegin

\* `while not stop:` ends the loop; log_db("info", "sensor exited cleanly")
SensorExit ==
    /\ pc = "tick"
    /\ stop
    /\ pc' = "exited"
    /\ \E written \in BOOLEAN :
         logs' = LogDb(logs, "info", "sensor exited cleanly", 0, written)
    /\ UNCHANGED <<sse, watch, now, events, alerts, cfgFile, cfgChanged, cfgWrites, cfgVars,
                   deauthVars, rogueVars, beacons, clock, buf, last_flush, arrived,
                   worker, deauth_seen, hopVars>>

\* the finally clause of run_sniffer, reached by the KeyboardInterrupt:
\* stop_evt.set(), hopper.join(timeout=1.0), flush(), log_db("sniffer stopped")
Finally ==
    /\ worker = "running"
    /\ interrupted
    /\ stop_evt' = TRUE
    /\ sniffing' = FALSE
    /\ \E outcome \in FlushOutcomes, written \in BOOLEAN :
         IF buf = <<>>
         THEN /\ worker' = "stopped"
              /\ logs' = LogDb(logs, "info", "sniffer stopped", 0, written)
              /\ UNCHANGED <<events, buf>>
         ELSE IF outcome = "raise"
         THEN /\ worker' = "raised"
              /\ UNCHANGED <<events, buf, logs>>
         ELSE /\ worker' = "stopped"
              /\ events' = Commit(events, buf, outcome)
              /\ buf' = BufferCleared(buf)
              /\ logs' = LogDb(logs, "info", "sniffer stopped", 0, written)
    /\ UNCHANGED <<sse, watch, storeVars, now, alerts, cfgFile, cfgChanged, cfgWrites, cfgVars, deauthVars,
                   rogueVars, pc, beacons, clock, last_flush, arrived, deauth_seen,
                   hopFile, hopCfg, hopWrites, last_plan, last_plan_key, idx, radio,
                   hop_cfg, shuffles, stop, signal, interrupted, hopper, backoff,
                   waited, mark, streak, failures>>

\* `while not stop_evt.is_set():` ends _hop_loop
HopperExit ==
    /\ hopper = "running"
    /\ stop_evt
    /\ hopper' = "exited"
    /\ UNCHANGED <<sse, watch, storeVars, now, events, alerts, cfgFile, cfgChanged, cfgWrites, cfgVars,
                   deauthVars, rogueVars, pc, beacons, clock, buf, last_flush, arrived,
                   worker, logs, deauth_seen, hopFile, hopCfg, hopWrites, last_plan,
                   last_plan_key, idx, radio, hop_cfg, shuffles, stop, signal,
                   interrupted, stop_evt, sniffing, backoff, waited, mark, streak,
                   failures>>

ShutdownHopFiles == {HopCfg(TRUE, "list", {"2.4"}, Null, <<>>, <<>>, Null, <<1, 6>>)}

ShutdownFrames ==
    {Frame("mgmt.beacon", "bb:02", "bb:02", "home", 6, "2.4", <<-50>>, Null, Null)}

IngestShutdown == worker = "running" /\ Ingest(ShutdownFrames, MaxShutdownEvents)
SignalShutdown == Signal(Signals)
SniffRaiseShutdown == SniffRaise(MaxShutdownFailures)
HopStepShutdown == HopStep(ReadOutcomes, MaxHops)

InitShutdown == InitWith(CaptureConfigs, ShutdownHopFiles)
NextShutdown ==
    \/ SignalShutdown
    \/ IngestShutdown
    \/ TickBeginLive \/ EvalBeacon \/ Sleep \/ SensorExit
    \/ SniffBegin \/ SniffReturn \/ SniffRaiseShutdown \/ Finally
    \/ HopStepShutdown \/ HopperExit

\* every worker that can take a step of its loop takes it: the sensor ends its
\* tick and leaves its loop, the sniff loop calls sniff() again, sniff() ends
\* (timeout=5), the finally clause runs, the hopper sees stop_evt
SpecShutdown ==
    /\ InitShutdown
    /\ [][NextShutdown]_vars
    /\ WF_vars(EvalBeacon) /\ WF_vars(Sleep) /\ WF_vars(SensorExit)
    /\ WF_vars(SniffBegin) /\ WF_vars(SniffReturn) /\ WF_vars(Finally)
    /\ WF_vars(HopperExit)

\* ---- C26: shutdown ----

Signalled == signal # Null

AllTerminated ==
    /\ pc \in {"exited", "crashed"}
    /\ worker # "running"
    /\ hopper = "exited"

\* C26: after the shutdown signal the capture loop, the hopper and the detector
\* all terminate.
C26_SignalStopsEveryWorker == Signalled ~> AllTerminated

-----------------------------------------------------------------------------
(* Opening the store: get_engine, init_db, ensure_schema and, in the sensor  *)
(* and the API, the two CREATE INDEX IF NOT EXISTS statements.               *)

CallOutcomes == {"ok", "raise"}

\* SQLModel.metadata.create_all(engine): the table is created, with every
\* column of class Event, if it does not exist
CreateAll(cols) == IF cols = {} THEN BaseColumns \cup RsnColumns ELSE cols

\* ensure_schema: the columns after the ALTER TABLE statements.  A failed
\* PRAGMA leaves cols empty and both statements are tried; a statement that
\* fails (the column is there already, or the store refuses) is passed over.
EnsureSchema(cols, introspect, alter) ==
    LET seen    == IF introspect = "ok" THEN cols ELSE {}
        missing == RsnColumns \ seen
        added   == {c \in missing : c \notin cols /\ alter[c] = "ok"}
    IN  cols \cup added

\* the workers whose open sequence creates the indices
CreatesIndices(wk) == wk \in {"detector", "api"}

\* one worker runs its open sequence
Open(workers, max) ==
    /\ opens < max
    /\ opens' = opens + 1
    /\ \E wk \in workers, engine \in CallOutcomes, introspect \in CallOutcomes,
          alter \in [RsnColumns -> CallOutcomes], index \in CallOutcomes :
         IF engine = "raise"
         THEN \* get_engine raises RuntimeError
              /\ opened' = [opened EXCEPT ![wk] = "failed"]
              /\ UNCHANGED <<columns, indices>>
         ELSE LET cols == EnsureSchema(CreateAll(columns), introspect, alter)
              IN  /\ columns' = cols
                  /\ IF ~CreatesIndices(wk)
                     THEN /\ opened' = [opened EXCEPT ![wk] = "open"]
                          /\ UNCHANGED indices
                     ELSE IF index = "raise"
                     THEN /\ opened' = [opened EXCEPT ![wk] = "failed"]
                          /\ UNCHANGED indices
                     ELSE /\ opened' = [opened EXCEPT ![wk] = "open"]
                          /\ indices' = BothIndices
    /\ UNCHANGED <<sse, watch, now, events, alerts, cfgFile, cfgChanged, cfgWrites, cfgVars,
                   deauthVars, rogueVars, pc, beacons, clock, buf, last_flush, arrived,
                   worker, logs, deauth_seen, hopFile, hopCfg, hopWrites, last_plan,
                   last_plan_key, idx, radio, hop_cfg, shuffles, stop, signal,
                   interrupted, stop_evt, hopper, sniffing, backoff, waited, mark,
                   streak, failures, apiCalls>>

\* a store that does not exist yet, one created before the RSN columns, with
\* or without the indices, and one that is up to date; no worker has opened it
OpenStores ==
    {Store({}, {}, "closed"),
     Store(BaseColumns, {}, "closed"),
     Store(BaseColumns, BothIndices, "closed"),
     Store(BaseColumns \cup RsnColumns, BothIndices, "closed")}

OpenStore == Open(Workers, MaxOpens)

InitOpen == InitStore(CaptureConfigs, {NoHop}, OpenStores)
NextOpen == OpenStore
SpecOpen == InitOpen /\ [][NextOpen]_vars

\* ---- C28: a migration that fails ----

\* C28: a worker whose open sequence has ended without an error has a table
\* event with its rsn_akms and rsn_ciphers columns.
C28_OpenedHasRsnColumns ==
    \A wk \in Workers : opened[wk] = "open" => RsnColumns \subseteq columns

\* ---- C29: the indices ----

\* C29: once a worker has completed its open sequence, both indices exist.
C29_OpenedHasIndices ==
    \A wk \in Workers : opened[wk] = "open" => indices = BothIndices

-----------------------------------------------------------------------------
(* The API's operations on table alert: POST /api/alerts/test and            *)
(* POST /api/admin/clear.  No other endpoint writes the table.               *)

\* Alert(ts=datetime.utcnow(), severity="info", kind="test", summary=...)
TestAlert(t) ==
    [ts |-> t, severity |-> "info", kind |-> "test", total |-> 0, offenders |-> 0,
     reason |-> "", bssid |-> "", eid |-> 0, acknowledged |-> FALSE]

\* the payload publish_alert_sse puts in the queue of every subscriber for
\* the alert with id i; clears is history: it tells the alerts that had the
\* same id apart
SsePayload(st, tbl, i) ==
    [id |-> i, kind |-> tbl[i].kind, ts |-> tbl[i].ts, clears |-> st.clears]

\* create_test_alert: the alert is committed, then handed to
\* publish_alert_sse
CreateTestAlert(max) ==
    /\ apiCalls < max
    /\ apiCalls' = apiCalls + 1
    /\ alerts' = Append(alerts, TestAlert(now))
    /\ sse' = [sse EXCEPT !.sent = Append(@, SsePayload(sse, alerts', Len(alerts')))]
    /\ UNCHANGED <<watch, now, events, cfgFile, cfgChanged, cfgWrites, cfgVars, deauthVars,
                   rogueVars, pc, beacons, clock, buf, last_flush, arrived, worker, logs,
                   deauth_seen, hopFile, hopCfg, hopWrites, last_plan, last_plan_key,
                   idx, radio, hop_cfg, shuffles, stop, signal, interrupted, stop_evt,
                   hopper, sniffing, backoff, waited, mark, streak, failures, columns,
                   indices, opened, opens>>

\* mutant: the newest row is deleted
DeleteNewest(tbl) == SubSeq(tbl, 1, Len(tbl) - 1)

\* DELETE FROM <table>;
DeleteFrom(tbl) == <<>>

\* body.get("tables") or ["events", "alerts"], the names it knows
ClearRequests == {{"events", "alerts"}, {"alerts"}, {"logs"}}

\* admin_clear: the statements run in one session and are committed together,
\* or the request fails and nothing is deleted.  The rows of a beacon pass in
\* progress are objects the sensor holds; here they are ids into events, so
\* events are cleared between passes only.
AdminClear(requests, max) ==
    /\ apiCalls < max
    /\ apiCalls' = apiCalls + 1
    /\ \E tables \in requests, outcome \in CallOutcomes :
         /\ "events" \in tables => beacons = <<>>
         /\ IF outcome = "raise"
            THEN UNCHANGED <<events, alerts, logs>>
            ELSE /\ events' = IF "events" \in tables THEN DeleteFrom(events) ELSE events
                 /\ alerts' = IF "alerts" \in tables THEN DeleteFrom(alerts) ELSE alerts
                 /\ logs' = IF "logs" \in tables THEN DeleteFrom(logs) ELSE logs
    /\ sse' = IF alerts' # alerts THEN [sse EXCEPT !.clears = @ + 1] ELSE sse
    /\ UNCHANGED <<watch, now, cfgFile, cfgChanged, cfgWrites, cfgVars, deauthVars,
                   rogueVars, pc, beacons, clock, buf, last_flush, arrived, worker,
                   deauth_seen, hopFile, hopCfg, hopWrites, last_plan, last_plan_key,
                   idx, radio, hop_cfg, shuffles, stop, signal, interrupted, stop_evt,
                   hopper, sniffing, backoff, waited, mark, streak, failures, columns,
                   indices, opened, opens>>

AlertConfigs == {Config("home", {}, {}, {}, 4, 2, 1, 2, 3, 150, 4)}

AlertFrames ==
    {Frame("mgmt.deauth", "cc:03", "aa:01", None, 6, "2.4", <<-50>>, Null, Null),
     Frame("mgmt.beacon", "bb:02", "bb:02", "home", 6, "2.4", <<-50>>, Null, Null)}

IngestAlerts == Ingest(AlertFrames, MaxAlertEvents)
CreateTestAlertAlerts == CreateTestAlert(MaxApiCalls)
AdminClearAlerts == AdminClear(ClearRequests, MaxApiCalls)

InitAlerts == Init(AlertConfigs)
NextAlerts ==
    IngestAlerts \/ TickBegin \/ EvalBeacon \/ Sleep \/ CreateTestAlertAlerts
        \/ AdminClearAlerts
SpecAlerts == InitAlerts /\ [][NextAlerts]_vars

\* ---- C30: alerts are append-only ----

\* Every alert of the table is still there, under its id, with its fields.
AlertsKept ==
    /\ Len(alerts') >= Len(alerts)
    /\ \A i \in DOMAIN alerts : alerts'[i] = alerts[i]

\* Every alert of the table is still there, under its id, with its fields,
\* the acknowledged flag apart.
AlertsKeptButFlag ==
    /\ Len(alerts') >= Len(alerts)
    /\ \A i \in DOMAIN alerts :
         [alerts'[i] EXCEPT !.acknowledged = alerts[i].acknowledged] = alerts[i]

\* C30 as stated: no step removes a committed alert or changes a field of it
\* other than the acknowledged flag.
C30_AlertsAppendOnly == [][AlertsKeptButFlag]_vars

\* C30 amended: a step of the capture worker or of the detector keeps every
\* committed alert with all its fields; so does a request to the API, unless
\* it is an admin clear, which deletes every alert.
C30_AlertsKeptUntilCleared ==
    [][ /\ (apiCalls' = apiCalls) => AlertsKept
        /\ (apiCalls' # apiCalls) => (AlertsKept \/ alerts' = <<>>) ]_vars

\* An alert of the detector and a later one of the API are in the table, and
\* the detector has gone through another tick since.
C30_Witness ==
    /\ Len(alerts) >= 2
    /\ alerts[1].kind = "deauth_flood"
    /\ alerts[2].kind = "test"
    /\ now > alerts[2].ts
    /\ apiCalls >= 1

----------------------------------------------------------------------------
(* The ESSID-flip watcher of the capture worker *)

\* no frame arrives for ms milliseconds
Elapse(ms, max) ==
    /\ clock + ms <= StartClock + max * ms
    /\ clock' = clock + ms
    /\ UNCHANGED <<sse, watch, now, events, alerts, cfgFile, cfgChanged, cfgWrites, cfgVars,
                   deauthVars, rogueVars, pc, beacons, buf, last_flush, arrived,
                   worker, logs, deauth_seen, hopVars>>

\* a defended SSID without an allowlist, and one with the allowlist AA:01
EssidConfigs ==
    {Config("home", {}, {}, {}, 4, 2, 2, 4, 3, 150, 4),
     Config("home", {"AA:01"}, {}, {}, 4, 2, 2, 4, 3, 150, 4)}

\* beacons of two BSSIDs, each advertising the defended SSID or another one
EssidPackets ==
    {Packet(TRUE, "beacon", s, "ff:ff", b, b, TRUE, <<6>>, TRUE, 2437, <<-50>>) :
        s \in {"home", "evil"}, b \in {"aa:01", "bb:02"}}

\* a frame arrives and handle() returns (the store takes every commit)
HandleEssid == Handle(EssidPackets, MaxWatchFrames) /\ HandleReturned
ElapseEssid == Elapse(QuietMs, MaxQuiet)

InitEssid ==
    InitWatch(EssidConfigs, {NoHop}, {CurrentStore}, {WatchOptions(20, 150, TRUE)})
NextEssid == HandleEssid \/ ElapseEssid
SpecEssid == InitEssid /\ [][NextEssid]_vars

\* ---- C31: the ESSID-flip entries ----

\* the SSIDs that the first n frames handed to the worker carried for BSSID b
SsidsOf(b, n) ==
    {arrived[i].ssid : i \in {j \in 1..n : /\ arrived[j].layer = "beacon"
                                           /\ arrived[j].addr3 = b
                                           /\ arrived[j].ssid \notin {None, ""}}}

\* b is allowlisted or, no allowlist being configured, was seen beaconing the
\* defended SSID among the first n frames
WatchedByRule(b, n) ==
    \/ b \in {Lower(x) : x \in cfgFile.allowed_bssids}
    \/ cfgFile.allowed_bssids = {} /\ cfgFile.ssid \in SsidsOf(b, n)

EssidEntries(b) ==
    {i \in DOMAIN watch.anomalies :
        watch.anomalies[i].kind = "essid" /\ watch.anomalies[i].bssid = b}

\* the frame of this step is the one with which the SSIDs seen for b grow
\* from one to two, and the step appends an ESSID-flip entry for b
FlipEmitted(b) ==
    ( /\ Len(arrived') = Len(arrived) + 1
      /\ WatchedByRule(b, Len(arrived))
      /\ Cardinality(SsidsOf(b, Len(arrived))) = 1
      /\ Cardinality(SsidsOf(b, Len(arrived))') = 2 )
    => ( /\ Len(watch'.anomalies) = Len(watch.anomalies) + 1
         /\ watch'.anomalies[Len(watch'.anomalies)].kind = "essid"
         /\ watch'.anomalies[Len(watch'.anomalies)].bssid = b )

\* two ESSID-flip entries for the same BSSID are more than 5 s apart
FlipEntriesApart ==
    \A b \in {"aa:01", "bb:02"} : \A i, j \in EssidEntries(b) :
        i < j => watch.anomalies[j].t - watch.anomalies[i].t > 5 * MsPerSec

\* C31 as stated: for a BSSID that is allowlisted or, without an allowlist,
\* has been seen beaconing the defended SSID, an ESSID-flip entry is written
\* when the SSIDs seen for it grow from one to two, and two ESSID-flip entries
\* for the same BSSID are never 5 s or less apart.
C31_EssidFlipEmitted ==
    /\ [][\A b \in {"aa:01", "bb:02"} : FlipEmitted(b)]_vars
    /\ []FlipEntriesApart

----------------------------------------------------------------------------
(* The PWR watcher of the capture worker *)

\* the defended SSID with the allowlist AA:01
PwrWatchConfigs == {Config("home", {"AA:01"}, {}, {}, 4, 2, 2, 4, 3, 150, 4)}

\* --rssi-window 1, 2, 3, 4 and 6 with the default threshold, and a log file
PwrWatchOptions == {WatchOptions(n, 150, TRUE) : n \in {1, 2, 3, 4, 6}}

\* beacons of the allowlisted BSSID at -50 dBm, at -90 dBm and without a
\* radiotap signal field
PwrWatchPackets ==
    {Packet(TRUE, "beacon", "home", "ff:ff", "aa:01", "aa:01", TRUE, <<6>>, TRUE, 2437, r) :
        r \in {<<-50>>, <<-90>>, Null}}

HandlePwrWatch == Handle(PwrWatchPackets, MaxWatchFrames) /\ HandleReturned
ElapsePwrWatch == Elapse(QuietMs, MaxQuiet)

InitPwrWatch == InitWatch(PwrWatchConfigs, {NoHop}, {CurrentStore}, PwrWatchOptions)
NextPwrWatch == HandlePwrWatch \/ ElapsePwrWatch
SpecPwrWatch == InitPwrWatch /\ [][NextPwrWatch]_vars

\* ---- C32: the ring buffer and the PWR entries ----

HasRssi(pkt) == pkt.rssi # Null

\* the RSSI samples that the first n frames handed to the worker carried for b
RssiOf(b, n) ==
    LET OfB(pkt) == pkt.addr3 = b /\ HasRssi(pkt)
        s == SelectSeq(SubSeq(arrived, 1, n), OfB)
    IN  [i \in DOMAIN s |-> s[i].rssi[1]]

PwrEntries(b) ==
    {i \in DOMAIN watch.anomalies :
        watch.anomalies[i].kind = "pwr" /\ watch.anomalies[i].bssid = b}

\* more than 5 s have passed at time t since the last PWR entry for b
PwrEntryDue(b, t) ==
    \A i \in PwrEntries(b) : t - watch.anomalies[i].t > 5 * MsPerSec

\* the ring buffer of b holds the last N samples of b
RingHoldsLastN(b) ==
    b \in DOMAIN watch.rssi_windows =>
        watch.rssi_windows[b] = LastN(RssiOf(b, Len(arrived)), watch.rssi_window)

\* the step handles a sample of b, and it appends a PWR entry for b exactly
\* when at least N/2 samples are present, their variance exceeds
\* var_threshold and the last PWR entry for b is more than 5 s old
PwrEntryExactly(b) ==
    ( /\ Len(arrived') = Len(arrived) + 1
      /\ arrived'[Len(arrived')].addr3 = b
      /\ HasRssi(arrived'[Len(arrived')]) )
    => LET win == LastN(RssiOf(b, Len(arrived))', watch.rssi_window)
       IN  (PwrEntries(b)' # PwrEntries(b))
           <=> ( /\ 2 * Len(win) >= watch.rssi_window
                 /\ VarianceExceeds(win, watch.var_threshold)
                 /\ PwrEntryDue(b, clock) )

\* C32 as stated: the ring buffer of a tracked BSSID holds its last N RSSI
\* samples for every permitted N, and a PWR entry is written on a sample
\* exactly when at least N/2 samples are present, their population variance
\* exceeds var_threshold and more than 5 s have passed since the last PWR
\* entry for that BSSID (so that the entry can be written for every N).
C32_PwrEntryExactly ==
    /\ []RingHoldsLastN("aa:01")
    /\ [][PwrEntryExactly("aa:01")]_vars

----------------------------------------------------------------------------
(* parse_rsn_info, as the replay script applies it to the beacons of a capture file *)

\* _fmt_selector(b) of four bytes: the OUI and the suite type
FmtSelector(b) == [oui |-> <<b[1], b[2], b[3]>>, type |-> b[4]]

\* data[off:off+n] (off counts from 0)
Slice(data, off, n) == SubSeq(data, off + 1, off + n)

\* int.from_bytes(data[off:off+2], 'little')
CountAt(data, off) == data[off + 1] + 256 * data[off + 2]

\* for _ in range(cnt): if len(data) < off + 4: break; add; off += 4
RECURSIVE ReadSuites(_, _, _, _)
ReadSuites(data, off, cnt, acc) ==
    IF cnt = 0 \/ Len(data) < off + 4
    THEN [suites |-> acc, off |-> off]
    ELSE ReadSuites(data, off + 4, cnt - 1, acc \cup {FmtSelector(Slice(data, off, 4))})

\* the dict parse_rsn_info returns; {} has no entry
RsnInfo(akms, ciphers) == [empty |-> FALSE, akms |-> akms, ciphers |-> ciphers]
NoRsnInfo == [empty |-> TRUE, akms |-> {}, ciphers |-> {}]

\* parse_rsn_info on the info bytes of the RSN element (ID 48) of a frame
parse_rsn_info(data) ==
    IF Len(data) < 2 THEN NoRsnInfo
    ELSE IF Len(data) < 6 THEN NoRsnInfo
    ELSE IF Len(data) < 8 THEN NoRsnInfo
    ELSE LET group == FmtSelector(Slice(data, 2, 4))
             pw    == ReadSuites(data, 8, CountAt(data, 6), {group})
         IN  IF Len(data) < pw.off + 2
             THEN RsnInfo({}, pw.suites)
             ELSE RsnInfo(ReadSuites(data, pw.off + 2, CountAt(data, pw.off), {}).suites,
                          pw.suites)

\* an RSN element: version 1, group cipher 00:0f:ac:4, np pairwise suites
\* 00:0f:ac:(3+i) and na AKM suites 00:0f:ac:i
RECURSIVE SuiteList(_, _)
SuiteList(n, base) ==
    IF n = 0 THEN <<>> ELSE SuiteList(n - 1, base) \o <<0, 15, 172, base + n>>
RsnElement(np, na) ==
    <<1, 0>> \o <<0, 15, 172, 4>> \o <<np, 0>> \o SuiteList(np, 3)
        \o <<na, 0>> \o SuiteList(na, 0)

\* the elements with up to MaxSuites suites in each list, whole or cut
\* anywhere
ReplayElements ==
    UNION {{SubSeq(RsnElement(np, na), 1, n) : n \in 0..Len(RsnElement(np, na))} :
              np \in 0..MaxSuites, na \in 0..MaxSuites}

\* the replay script on the next beacon of the capture file: the Event it
\* adds has rsn_akms and rsn_ciphers NULL when parse_rsn_info returns {}
Replay(elements, max) ==
    /\ Len(arrived) < max
    /\ \E data \in elements :
         LET rsn == parse_rsn_info(data)
         IN  /\ arrived' = Append(arrived, data)
             /\ events' = Append(events,
                    [type |-> "mgmt.beacon", band |-> "5", chan |-> 36, ts |-> clock,
                     rsn_akms |-> IF rsn.empty THEN Null ELSE <<rsn.akms>>,
                     rsn_ciphers |-> IF rsn.empty THEN Null ELSE <<rsn.ciphers>>])
    /\ UNCHANGED <<sse, watch, now, alerts, cfgFile, cfgChanged, cfgWrites, cfgVars, deauthVars,
                   rogueVars, pc, beacons, clock, buf, last_flush, worker, logs,
                   deauth_seen, hopVars>>

ReplayRsn2 == Replay(ReplayElements, MaxReplayed)

InitRsn2 == Init(CaptureConfigs)
NextRsn2 == ReplayRsn2
SpecRsn2 == InitRsn2 /\ [][NextRsn2]_vars

\* ---- C33: truncated RSN elements ----

\* the group cipher suite of the element is whole
GroupParsed(data) == Len(data) >= 6

\* the number of suites a list at offset off announces, 0 if its count is cut
Announced(data, off) == IF Len(data) >= off + 2 THEN CountAt(data, off) ELSE 0

\* the whole suites of the list whose count is at offset off
WholeSuites(data, off) ==
    {FmtSelector(Slice(data, off + 2 + 4 * k, 4)) :
        k \in {j \in 0..(Announced(data, off) - 1) : Len(data) >= off + 2 + 4 * j + 4}}

\* where the AKM list starts if the pairwise list is whole
AkmOffset(data) == 8 + 4 * Announced(data, 6)

\* what was parsed up to the truncation
ParsedSoFar(data) ==
    RsnInfo(IF Len(data) >= AkmOffset(data) THEN WholeSuites(data, AkmOffset(data)) ELSE {},
            {FmtSelector(Slice(data, 2, 4))} \cup WholeSuites(data, 6))

\* C33 as stated: on an RSN element cut anywhere after the group cipher
\* suite, parse_rsn_info returns what was parsed up to there: ciphers holds
\* the group suite and every whole pairwise suite, akms every whole AKM suite;
\* the result is not empty once the group cipher suite has been parsed.
C33_TruncatedReturnsParsed ==
    \A i \in DOMAIN arrived :
        GroupParsed(arrived[i]) =>
            /\ parse_rsn_info(arrived[i]) = ParsedSoFar(arrived[i])
            /\ events[i].rsn_ciphers # Null

----------------------------------------------------------------------------
(* Deauth signatures that alternate inside the cooldown *)

\* window 2 s, global limit 1, cooldown 6 s: the window total changes from
\* tick to tick while the cooldown runs
SigConfigs == {Config("", {}, {}, {}, 2, 2, 1, 6, 3, 150, 4)}

SigFrames ==
    {Frame("mgmt.deauth", "aa:01", "aa:01", None, 6, "2.4", <<-50>>, Null, Null),
     Frame("mgmt.beacon", "aa:01", "aa:01", "home", 6, "2.4", <<-50>>, Null, Null)}

IngestSig == Ingest(SigFrames, MaxEvents)

InitSig == Init(SigConfigs)
NextSig == IngestSig \/ TickBegin \/ EvalBeacon \/ Sleep
SpecSig == InitSig /\ [][NextSig]_vars

\* ---- C34: alerts of one signature ----

FloodAlerts == {i \in DOMAIN alerts : alerts[i].kind = "deauth_flood"}

\* the signature of the tick at time t: the window total and the offender set
SignatureAt(t) ==
    LET past == SelectSeq(events, LAMBDA e : e.ts <= t)
    IN  <<Cardinality(WindowDeauths(past, t, cfgFile.window_sec)),
          SourcesAtLeast(past, t, cfgFile.window_sec, cfgFile.per_src_limit)>>

\* C34 as stated: no two deauth_flood alerts with the same signature (same
\* total, same offender set) are fired less than cooldown_sec apart, whatever
\* the totals of the ticks in between.
C34_SameSignatureApart ==
    \A i, j \in FloodAlerts :
        (i < j /\ SignatureAt(alerts[i].ts) = SignatureAt(alerts[j].ts))
            => alerts[j].ts - alerts[i].ts >= cfgFile.cooldown_sec

----------------------------------------------------------------------------
(* The API rewrites the config file while the detector reloads it *)

\* set_deauth_settings: p.write_text opens the file for writing, which
\* truncates it and moves its mtime; the document it is about to write is
\* the one it read, with thresholds.deauth replaced
WriteTextOpen(configs) ==
    /\ Fault(cfgFile) = "none"
    /\ cfgWrites < MaxWrites
    /\ \E c \in configs :
         /\ DefenseOf(c) = DefenseOf(cfgFile)
         /\ FileWith(c, "none") # cfgFile
         /\ cfgFile' = FileWith(c, "empty")
    /\ cfgChanged' = TRUE
    /\ cfgWrites' = cfgWrites + 1
    /\ UNCHANGED <<now, events, alerts, cfgVars, deauthVars, rogueVars, pc, beacons,
                   captureVars>>

\* p.write_text writes the document and closes the file.  The mtime of the
\* file moves again, unless the clock of the file system has not ticked since
\* the truncation: then a detector that has read the empty file sees no
\* newer mtime
WriteTextClose ==
    /\ Fault(cfgFile) = "empty"
    /\ cfgFile' = [cfgFile EXCEPT !.fault = "none"]
    /\ \E ticked \in BOOLEAN : cfgChanged' = (cfgChanged \/ ticked)
    /\ UNCHANGED <<now, events, alerts, cfgWrites, cfgVars, deauthVars, rogueVars, pc,
                   beacons, captureVars>>

\* two documents that differ in thresholds.deauth only
TornConfigs ==
    {Config("home", {"AA:01"}, {}, {}, 4, 2, 2, 4, 3, 150, 4),
     Config("home", {"AA:01"}, {}, {}, 6, 1, 1, 6, 3, 150, 4)}

TornFrames ==
    {Frame("mgmt.beacon", "bb:02", "bb:02", "home", 6, "2.4", <<-50>>, Null, Null)}

IngestTorn == Ingest(TornFrames, MaxEvents)
WriteTextOpenTorn == WriteTextOpen(TornConfigs)

InitTorn == Init({FileWith(c, "none") : c \in TornConfigs})
NextTorn ==
    IngestTorn \/ WriteTextOpenTorn \/ WriteTextClose \/ TickBeginReload \/ EvalBeacon
        \/ Sleep
SpecTorn == InitTorn /\ [][NextTorn]_vars

\* ---- C35: the reload applies a whole document ----

\* the settings of the detector that has applied the whole document c
WholeSettings(c) ==
    [w |-> c.window_sec, per_src |-> c.per_src_limit, glob |-> c.global_limit,
     cooldown |-> c.cooldown_sec, defense |-> DefenseOf(c), pwr_win |-> c.pwr_window,
     pwr_var_threshold |-> c.pwr_var_threshold, pwr_cooldown |-> c.pwr_cooldown_sec]

\* C35 as stated: whatever the interleaving of the file's truncate-and-write
\* with the detector's stat-and-read, the settings the detector holds are
\* those of the whole old document or of the whole new one; it never applies
\* an empty file, which would clear the defended SSID.
C35_ReloadOldOrNew ==
    /\ Settings \in {WholeSettings(c) : c \in TornConfigs}
    /\ defense.ssid = "home"

----------------------------------------------------------------------------
(* The alert poller of the API *)

\* publish every row of rows, in order: for a in rows: publish_alert_sse(a)
RECURSIVE PublishAll(_, _, _)
PublishAll(st, tbl, rows) ==
    IF rows = <<>> THEN st
    ELSE PublishAll([st EXCEPT !.sent = Append(@, SsePayload(st, tbl, Head(rows))),
                               !.watermark = Max(@, Head(rows))],
                    tbl, Tail(rows))

\* one round of _alert_poller_loop: select(Alert).where(Alert.id >
\* _last_alert_id_for_sse).order_by(Alert.id.asc()), every row published and
\* the watermark raised to its id
Poll ==
    /\ sse' = PublishAll(sse, alerts,
                  SelectSeq([i \in DOMAIN alerts |-> i], LAMBDA i : i > sse.watermark))
    /\ sse' # sse
    /\ UNCHANGED <<watch, now, events, alerts, cfgFile, cfgChanged, cfgWrites, cfgVars,
                   deauthVars, rogueVars, pc, beacons, clock, buf, last_flush, arrived,
                   worker, logs, deauth_seen, hopVars>>

PollerFrames ==
    {Frame("mgmt.deauth", "cc:03", "aa:01", None, 6, "2.4", <<-50>>, Null, Null),
     Frame("mgmt.beacon", "bb:02", "bb:02", "home", 6, "2.4", <<-50>>, Null, Null)}

IngestPoller == Ingest(PollerFrames, MaxAlertEvents)
CreateTestAlertPoller == CreateTestAlert(MaxApiCalls)
AdminClearPoller == AdminClear(ClearRequests, MaxApiCalls)

InitPoller == Init(AlertConfigs)
NextPoller ==
    IngestPoller \/ TickBegin \/ EvalBeacon \/ Sleep \/ CreateTestAlertPoller
        \/ AdminClearPoller \/ Poll
SpecPoller == InitPoller /\ [][NextPoller]_vars

\* ---- C36: what the subscribers of the alert stream get ----

\* the places in the subscriber's queue of the alert that got id i after the
\* c-th clearing of the table
SentAs(i, c) == {k \in DOMAIN sse.sent : sse.sent[k].id = i /\ sse.sent[k].clears = c}

\* no alert was put in the queue twice
SentAtMostOnce == \A k \in DOMAIN sse.sent :
    Cardinality(SentAs(sse.sent[k].id, sse.sent[k].clears)) = 1

\* what was put in the queue is a committed alert, as long as the table is
\* not cleared
SentAfterCommit == \A k \in DOMAIN sse.sent :
    sse.sent[k].clears = sse.clears =>
        /\ sse.sent[k].id \in DOMAIN alerts
        /\ alerts[sse.sent[k].id].kind = sse.sent[k].kind

\* the alerts of the table were put in the queue in the order of their ids
SentAscending == \A k, l \in DOMAIN sse.sent :
    (k < l /\ sse.sent[k].clears = sse.sent[l].clears) => sse.sent[k].id <= sse.sent[l].id

\* a round of the poller leaves no alert of the table unpublished
PollPublishesAll ==
    (sse'.watermark # sse.watermark \/ (sse'.sent # sse.sent /\ alerts' = alerts))
        => \A i \in DOMAIN alerts' :
              \E k \in DOMAIN sse'.sent :
                  sse'.sent[k].id = i /\ sse'.sent[k].clears = sse'.clears

\* C36 as stated: every alert committed while the poller runs is published to
\* a subscriber connected throughout exactly once, only after its commit and
\* in ascending id order, and the watermark never decreases, whatever the
\* interleaving of the detector's alerts, the test alerts of the API and the
\* clearing of the alert table.
C36_PublishedExactlyOnce ==
    /\ [](SentAtMostOnce /\ SentAfterCommit /\ SentAscending)
    /\ [][PollPublishesAll /\ sse'.watermark >= sse.watermark]_vars

----------------------------------------------------------------------------
(* check_rogue of the detectors module, against the policy check of the loop *)

\* build_ssid_index(policy): name -> the three sets of the SSID's entry
build_ssid_index(policy) ==
    [name \in {policy[i].name : i \in DOMAIN policy} |->
        LET p == policy[CHOOSE i \in DOMAIN policy : policy[i].name = name]
        IN  [bssids |-> {Lower(b) : b \in p.allowed_bssids},
             channels |-> p.allowed_channels,
             bands |-> p.allowed_bands]]

\* check_rogue(ssid, bssid, band, chan, idx): (verdict, reason)
check_rogue(ssid, bssid, band, chan, index) ==
    IF ssid \in {None, ""} THEN [rogue |-> FALSE, reason |-> ""]
    ELSE IF ssid \notin DOMAIN index THEN [rogue |-> FALSE, reason |-> ""]
    ELSE LET pol == index[ssid]
         IN  IF pol.channels # {} /\ chan \notin pol.channels
             THEN [rogue |-> TRUE, reason |-> "unapproved channel"]
             ELSE IF pol.bands # {} /\ band \notin pol.bands
             THEN [rogue |-> TRUE, reason |-> "unapproved band"]
             ELSE IF pol.bssids # {} /\ (bssid \in {None, ""} \/ Lower(bssid) \notin pol.bssids)
             THEN [rogue |-> TRUE, reason |-> "unknown BSSID"]
             ELSE [rogue |-> FALSE, reason |-> ""]

\* the policy with the defended SSID as its only entry
SinglePolicy(d) ==
    <<[name |-> d.ssid, allowed_bssids |-> d.allowed_bssids,
       allowed_channels |-> d.allowed_channels, allowed_bands |-> d.allowed_bands]>>

\* ---- C37: the two policy checks ----

\* check_rogue on the beacon the loop evaluates, under the loop's policy
ModuleVerdict ==
    check_rogue(Evaluated.ssid, Evaluated.bssid, Evaluated.band, Evaluated.chan,
                build_ssid_index(SinglePolicy(defense)))

\* C37 as stated: check_rogue gives the verdict and the reason of the loop's
\* policy check (BSSID allowlist, then channels, then bands) for every beacon
\* of the defended SSID, also for one that violates more than one list.
C37_SameVerdictAndReason ==
    [][EvalStep =>
        /\ ModuleVerdict.rogue <=> (NewRogues # {})
        /\ \A i \in NewRogues : alerts'[i].reason = ModuleVerdict.reason]_vars

\* the two checks agree on the verdict
VerdictsAgree == [][EvalStep => (ModuleVerdict.rogue <=> (NewRogues # {}))]_vars

----------------------------------------------------------------------------
(* The enabled bands change while the mode and the channel numbers stay *)

\* list mode with channels 1, 6, 11: filed under 2.4 GHz, under 6 GHz, and
\* under 2.4 GHz when both are enabled
BandsFiles ==
    {HopCfg(TRUE, "list", bands, Null, <<>>, <<>>, Null, <<1, 6, 11>>) :
        bands \in {{"2.4"}, {"6"}, {"2.4", "6"}}}

WriteHopBands == WriteHop(BandsFiles)
HopStepBands == HopStep({"ok"}, MaxHops)

InitBands == InitWith(CaptureConfigs, BandsFiles)
NextBands == WriteHopBands \/ HopStepBands
SpecBands == InitBands /\ [][NextBands]_vars

\* ---- C38: the band of the entry applied to the radio ----

\* C38 as stated: on every hop step the entry applied to the radio has a band
\* that is enabled in the hop configuration read for the step and is the band
\* that configuration files the channel under, also after the enabled bands
\* have changed with the mode and the channel numbers unchanged.
C38_AppliedBandEnabled ==
    [][HopTaken =>
        /\ radio'.band \in BandsOf(hop_cfg')
        /\ radio'.band = BandFor(radio'.ch, BandsOf(hop_cfg'))]_vars

----------------------------------------------------------------------------
(* The hopper's _chan_to_freq against the decoder's radiotap rule: the radio *)
(* is locked on one channel, and a beacon without a DS Parameter Set is      *)
(* captured on the frequency the radio was tuned to                          *)

\* the channel numbers _build_plan files under some band
PlanChannels == 1..233

\* lock mode on every channel, with 2.4 and 5 GHz enabled or with 6 GHz alone
TripFiles ==
    {HopCfg(TRUE, "lock", bands, Null, <<>>, <<>>, <<ch>>, <<>>) :
        bands \in {{"2.4", "5"}, {"6"}}, ch \in PlanChannels}

\* a beacon whose radiotap header carries the frequency freq
TunedBeacon(freq) ==
    Packet(TRUE, "beacon", "home", "ff:ff", "aa:01", "aa:01", FALSE, <<>>, TRUE, freq, <<-50>>)

HopStepTrip == HopStep({"ok"}, MaxHops)
HandleTrip == radio # Null /\ Handle({TunedBeacon(radio.freq)}, MaxFrames)

InitTrip == InitWith(CaptureConfigs, TripFiles)
NextTrip == HopStepTrip \/ HandleTrip
SpecTrip == InitTrip /\ [][NextTrip]_vars

\* This step captured a frame on the tuned frequency.
TunedCapture == radio # Null /\ Len(arrived') = Len(arrived) + 1

\* The event handle() built out of the frame this step captured.
CapturedEvent == BuildEvent(arrived'[Len(arrived')], clock, Len(arrived'))

\* C39: whatever plan entry the radio is tuned to, a frame captured on the
\* frequency _chan_to_freq gave for it is decoded by the radiotap rule to the
\* channel and the band of that entry.
C39_RoundTrip ==
    [][TunedCapture => (/\ CapturedEvent.chan = radio.ch
                        /\ CapturedEvent.band = radio.band)]_vars

\* the entries for which the round trip holds: every one but the 5 GHz
\* channels above 180, whose frequency is beyond the decoder's 5900 MHz
RoundTrips(band, ch) == ~(band = "5" /\ ch > 180)

C39_RoundTripUpTo180 ==
    [][TunedCapture => (RoundTrips(radio.band, radio.ch) <=>
                          (/\ CapturedEvent.chan = radio.ch
                           /\ CapturedEvent.band = radio.band))]_vars

----------------------------------------------------------------------------
(* The hopper and a config file that cannot be read: the read raises, or it  *)
(* returns the empty text of a file that is just being rewritten             *)

\* what the read of the config file in _build_plan does: it returns the
\* document, it raises, or it returns "" (yaml.safe_load("") is None)
HopReads == {"ok", "raise", "empty"}

RetryFiles ==
    {HopCfg(TRUE, "list", {"2.4"}, Null, <<>>, <<>>, Null, <<1, 6, 11>>),
     HopCfg(TRUE, "list", {"2.4"}, Null, <<>>, <<>>, Null, <<6, 14>>),
     HopCfg(TRUE, "lock", {"2.4"}, Null, <<>>, <<>>, <<6>>, <<>>),
     HopCfg(FALSE, "list", {"2.4"}, Null, <<>>, <<>>, Null, <<1, 6, 11>>)}

WriteHopRetry == WriteHop(RetryFiles)
HopStepRetry == HopStep(HopReads, MaxHops)

InitRetry == InitWith(CaptureConfigs, RetryFiles)
NextRetry == WriteHopRetry \/ HopStepRetry
SpecRetry == InitRetry /\ [][NextRetry]_vars

\* The last pass read the file as it is now, built a plan from it and hopped;
\* the file is not the start-up configuration, so that the pass cannot have
\* fallen back to it.
AppliedFile ==
    /\ hop_cfg = hopFile
    /\ hopFile # hopCfg
    /\ hopFile.enabled
    /\ PlanOf(hopFile) # <<>>
    /\ last_plan_key = PlanKey(hopFile, PlanOf(hopFile))

\* This step is a pass of the hop loop (the file is not rewritten).
HopPass == hopFile' = hopFile

\* The pass hopped to the next entry of the order in use.
KeepsHopping ==
    /\ HopTaken
    /\ last_plan' = last_plan
    /\ shuffles' = shuffles
    /\ radio'.ch = last_plan[(idx % Len(last_plan)) + 1].ch

\* C40: once the hopper has applied the file, a pass over the unchanged file
\* hops on through the order in use, whether its read succeeds, raises or
\* finds the file empty.
C40_KeepsLastApplied ==
    [][(AppliedFile /\ HopPass) => KeepsHopping]_vars

\* the same, for the passes that end with the file's configuration: they are
\* the ones whose read succeeded
C40_GoodReadKeeps ==
    [][(AppliedFile /\ HopPass /\ hop_cfg' = hopFile) => KeepsHopping]_vars

====
